---------------------------- MODULE Spec2Model ----------------------------
(***************************************************************************)
(* Year-review project analyzer (scripts/project_analyzer.py) and its      *)
(* callers (scripts/collect_data.py, scripts/generate_pages.py).           *)
(*                                                                         *)
(* Python values are represented as follows.                               *)
(*   str        a TLA+ string; characters are one-character strings        *)
(*   None       the reserved string None (no input text contains "<")      *)
(*   dict       a record; a key the dict lacks is absent from its DOMAIN   *)
(*   list       a sequence                                                 *)
(*   dict whose keys are computed (buckets, projects, quarters)            *)
(*              a sequence of entries in insertion order                   *)
(*   set        a set; where the code iterates over a set of str, the      *)
(*              iteration order is the one the process's hash seed gives   *)
(*   a call     [exc |-> "", value |-> v] when it returns v and            *)
(*              [exc |-> "TypeError" or "ValueError"] when it raises       *)
(***************************************************************************)
EXTENDS Integers, Sequences, FiniteSets, TLC

VARIABLES
    project_keywords,   \* ProjectAnalyzer.project_keywords (config['project_keywords'])
    year,               \* config['year'], the target year handed to the page generator
    prs,                \* data['github']['prs_authored']
    events,             \* data['calendar']['events']
    hashseed,           \* the process's str hash seed: the iteration order of category sets
    pc,                 \* the call the process is at; "done" after the last one
    pr_projects,        \* result of analyze_prs
    event_projects,     \* result of analyze_calendar_events
    projects,           \* result of merge_projects
    quarters,           \* result of organize_by_quarter
    exc,                \* the exception that ended the process, "" if none
    run,                \* the number of the process that analyses these inputs
    first_projects,     \* the project mapping the first process produced
    unit_in,            \* arguments of a direct call of one method
    unit_out,           \* its result
    heap,               \* the objects of the process by address: lists and dicts
    ref,                \* the address each name of the pipeline is bound to
    req_pc,             \* where a call of GitHubCollector._make_request is
    params,             \* its argument params
    page,               \* its local page
    all_items,          \* its local all_items
    now,                \* int(time.time()), the clock in whole seconds
    exchanges,          \* the requests session.get was called with, and its answers
    members,            \* config['members'] of collect_data.main
    files,              \* the files of data/raw: their JSON text, and how often written
    member_at,          \* the member the loop of main is at, by index
    all_members_data,   \* its local all_members_data
    turns,              \* what each turn of the loop did, in every run
    last_run            \* whether the run before completed, and its all_members_data

\* the objects by address
object_vars == <<heap, ref>>

\* a call of GitHubCollector._make_request
request_vars == <<req_pc, params, page, all_items, now, exchanges>>

\* collect_data.main and the files it keeps
cache_vars == <<members, files, member_at, all_members_data, turns, last_run>>

\* the collection of a member's data
collecting_vars == <<request_vars, cache_vars>>

\* what the analysis by value leaves alone
other_vars == <<object_vars, collecting_vars>>

vars == <<project_keywords, year, prs, events, hashseed, pc, pr_projects,
          event_projects, projects, quarters, exc, run, first_projects,
          unit_in, unit_out, other_vars>>

(***************************************************************************)
(* Bounds of the model.                                                    *)
(***************************************************************************)
\* the records one member's collected data holds, PRs and events together
MaxRecords == 3
\* the records one bucket of a direct call of merge_projects holds
MaxBucket == 1
\* the processes that run the analysis on the same collected data
MaxRuns == 2
\* the PRs, and the events, of a member whose records are grouped by name
MaxGrouped == 1
\* the records of the one project whose dates merge_projects works out
MaxDated == 2
\* the PRs handed to a direct call of _generate_description
MaxTitles == 2
\* the short titles before the only long one in a direct call of
\* _generate_description
MaxPadding == 5

(***************************************************************************)
(* Python's None, truthiness and dict.get.                                 *)
(***************************************************************************)
None == "<None>"

\* no object is followed by address
NoObjects == heap = <<>> /\ ref = <<>>

\* no request is made
NoRequest ==
    /\ req_pc = "idle"
    /\ params = <<>>
    /\ page = 0
    /\ all_items = <<>>
    /\ now = 0
    /\ exchanges = <<>>

\* main is not run
NoCache ==
    /\ members = <<>>
    /\ files = <<>>
    /\ member_at = 0
    /\ all_members_data = <<>>
    /\ turns = <<>>
    /\ last_run = <<>>

\* no data is collected
NoCollecting == NoRequest /\ NoCache

\* nothing but the analysis by value is modelled
NothingElse == NoObjects /\ NoCollecting

Truthy(v) == v # None /\ v # ""

Get(d, k, default) == IF k \in DOMAIN d THEN d[k] ELSE default

\* str(v) as an f-string formats it
Str(v) == IF v = None THEN "None" ELSE v

(***************************************************************************)
(* Characters and strings.                                                 *)
(***************************************************************************)
Ch(s, i) == SubSeq(s, i, i)

Chars(s) == {Ch(s, i) : i \in 1..Len(s)}

\* the printable ASCII characters in code-point order: 32 to 95, and 97 to 126
AsciiLow ==
    " !\"#$%&'()*+,-./0123456789:;<=>?@ABCDEFGHIJKLMNOPQRSTUVWXYZ[\\]^_"
AsciiHigh == "abcdefghijklmnopqrstuvwxyz{|}~"

UpperLetters == "ABCDEFGHIJKLMNOPQRSTUVWXYZ"
LowerLetters == "abcdefghijklmnopqrstuvwxyz"
Digits == "0123456789"

Upper == Chars(UpperLetters)
Lower == Chars(LowerLetters)
Letter == Upper \cup Lower
Digit == Chars(Digits)
\* \w and \s of the re module, over ASCII
Word == Letter \cup Digit \cup {"_"}
Space == {" ", "\t", "\n", "\r", "\f"}

IndexIn(s, c) == CHOOSE i \in 1..Len(s) : Ch(s, i) = c

\* ord(c)
Ord(c) ==
    IF c \in Chars(AsciiLow) THEN 31 + IndexIn(AsciiLow, c) ELSE 96 + IndexIn(AsciiHigh, c)

LowerCh(c) == IF c \in Upper THEN Ch(LowerLetters, IndexIn(UpperLetters, c)) ELSE c
UpperCh(c) == IF c \in Lower THEN Ch(UpperLetters, IndexIn(LowerLetters, c)) ELSE c

RECURSIVE str_lower(_)
\* str.lower
str_lower(s) == IF s = "" THEN "" ELSE LowerCh(Head(s)) \o str_lower(Tail(s))

RECURSIVE TitleFrom(_, _)
TitleFrom(s, prevCased) ==
    IF s = "" THEN ""
    ELSE (IF prevCased THEN LowerCh(Head(s)) ELSE UpperCh(Head(s)))
         \o TitleFrom(Tail(s), Head(s) \in Letter)

\* str.title
str_title(s) == TitleFrom(s, FALSE)

\* sub in s
Contains(sub, s) ==
    \/ sub = ""
    \/ \E i \in 1..(Len(s) - Len(sub) + 1) : SubSeq(s, i, i + Len(sub) - 1) = sub

RECURSIVE str_lstrip(_)
str_lstrip(s) == IF s # "" /\ Head(s) \in Space THEN str_lstrip(Tail(s)) ELSE s

RECURSIVE str_rstrip(_)
str_rstrip(s) ==
    IF s # "" /\ Ch(s, Len(s)) \in Space THEN str_rstrip(SubSeq(s, 1, Len(s) - 1)) ELSE s

\* str.strip
str_strip(s) == str_lstrip(str_rstrip(s))

RECURSIVE str_replace(_, _, _)
\* str.replace(old, new) for a one-character old
str_replace(s, old, new) ==
    IF s = "" THEN ""
    ELSE (IF Head(s) = old THEN new ELSE Head(s)) \o str_replace(Tail(s), old, new)

\* s[:n]
Prefix(s, n) == IF Len(s) <= n THEN s ELSE SubSeq(s, 1, n)

RECURSIVE StrLess(_, _)
\* a < b on str: lexicographic by code point
StrLess(a, b) ==
    IF b = "" THEN FALSE
    ELSE IF a = "" THEN TRUE
    ELSE IF Head(a) # Head(b) THEN Ord(Head(a)) < Ord(Head(b))
    ELSE StrLess(Tail(a), Tail(b))

RECURSIVE IntToStr(_)
\* str(n) for n >= 0
IntToStr(n) ==
    IF n < 10 THEN Ch(Digits, n + 1)
    ELSE IntToStr(n \div 10) \o Ch(Digits, (n % 10) + 1)

\* f"{n:0w}" for n >= 0
RECURSIVE Pad(_, _)
Pad(n, w) == IF Len(IntToStr(n)) >= w THEN IntToStr(n) ELSE "0" \o Pad(n, w - 1)

AllDigits(s) == s # "" /\ \A i \in 1..Len(s) : Ch(s, i) \in Digit

RECURSIVE ParseInt(_)
\* int(s) for a string of digits
ParseInt(s) ==
    IF s = "" THEN 0
    ELSE 10 * ParseInt(SubSeq(s, 1, Len(s) - 1)) + (IndexIn(Digits, Ch(s, Len(s))) - 1)

SetMin(S) == CHOOSE x \in S : \A y \in S : x <= y

\* the least element of stops, n + 1 when there is none
FirstStop(stops, n) == IF stops = {} THEN n + 1 ELSE SetMin(stops)

\* the first position from i on whose character is not in cs; Len(s)+1 if none
RunEnd(s, i, cs) == FirstStop({j \in i..Len(s) : Ch(s, j) \notin cs}, Len(s))

\* s has w at position i, ignoring case
HasAtCI(s, i, w) ==
    /\ i >= 1
    /\ i + Len(w) - 1 <= Len(s)
    /\ str_lower(SubSeq(s, i, i + Len(w) - 1)) = str_lower(w)

(***************************************************************************)
(* ProjectAnalyzer._detect_project_name: the four patterns, searched with   *)
(* re.IGNORECASE, and the capitalized-phrase fallback.  A match is          *)
(* [start, from, to]: the match starts at start and its group 1 is          *)
(* s[from..to-1].  re.search returns the match with the least start; at a   *)
(* start the greedy runs below are the only way the pattern can match,      *)
(* because each run is followed by a character outside the run's class.     *)
(***************************************************************************)
Alternatives1 == <<"v2", "v3", "kickoff", "integration", "implementation">>
Alternatives2 == <<"kickoff", "review", "sync", "meeting">>
Alternatives3 == <<"project", "initiative", "effort">>
Alternatives4 == <<"by", "from", "with">>

HasAnyAtCI(s, i, alts) == \E a \in 1..Len(alts) : HasAtCI(s, i, alts[a])

\* \d+ at position m
DigitAt(s, m) == m <= Len(s) /\ Ch(s, m) \in Digit

\* phase\s+\d+ at position k
PhaseAt(s, k) ==
    /\ HasAtCI(s, k, "phase")
    /\ k + 5 <= Len(s)
    /\ Ch(s, k + 5) \in Space
    /\ DigitAt(s, RunEnd(s, k + 5, Space))

\* \s+(?:v2|v3|phase\s+\d+|kickoff|integration|implementation) at position j
Rest1At(s, j) ==
    /\ j <= Len(s)
    /\ Ch(s, j) \in Space
    /\ \E k \in {RunEnd(s, j, Space)} : HasAnyAtCI(s, k, Alternatives1) \/ PhaseAt(s, k)

\* (\w+)\s+(?:v2|v3|phase\s+\d+|kickoff|integration|implementation)
Matches1(s) ==
    {[start |-> i, from |-> i, to |-> RunEnd(s, i, Word)] : i \in
        {i \in 1..Len(s) : Ch(s, i) \in Word /\ Rest1At(s, RunEnd(s, i, Word))}}

\* the position after (?:kickoff|review|sync|meeting): at position i, 0 if
\* none of the alternatives is there
AfterColon(s, i) ==
    IF \E a \in 1..Len(Alternatives2) : HasAtCI(s, i, Alternatives2[a] \o ":")
    THEN i + 1 + Len(Alternatives2[CHOOSE a \in 1..Len(Alternatives2) :
                                       HasAtCI(s, i, Alternatives2[a] \o ":")])
    ELSE 0

\* ([A-Z][a-zA-Z\s]+) at position k
Group2At(s, k) ==
    /\ k + 1 <= Len(s)
    /\ Ch(s, k) \in Letter
    /\ Ch(s, k + 1) \in Letter \cup Space

\* (?:kickoff|review|sync|meeting):\s*([A-Z][a-zA-Z\s]+)
Matches2(s) ==
    {[start |-> m[1], from |-> m[2], to |-> RunEnd(s, m[2] + 1, Letter \cup Space)] :
        m \in {m \in {<<i, RunEnd(s, AfterColon(s, i), Space)>> :
                         i \in {i \in 1..Len(s) : AfterColon(s, i) # 0}} :
                  Group2At(s, m[2])}}

\* \s+(?:alternatives) at position j, after a run of letters from i
RestWordAt(s, i, j, alts) ==
    /\ j >= i + 2
    /\ j <= Len(s)
    /\ Ch(s, j) \in Space
    /\ HasAnyAtCI(s, RunEnd(s, j, Space), alts)

\* ([A-Z][a-zA-Z]+)\s+(?:alternatives), for patterns 3 and 4
MatchesWordThen(s, alts) ==
    {[start |-> i, from |-> i, to |-> RunEnd(s, i, Letter)] : i \in
        {i \in 1..Len(s) :
            Ch(s, i) \in Letter /\ RestWordAt(s, i, RunEnd(s, i, Letter), alts)}}

Matches3(s) == MatchesWordThen(s, Alternatives3)
Matches4(s) == MatchesWordThen(s, Alternatives4)

\* re.search(pattern, text, re.IGNORECASE) for pattern p of the list: the
\* matches of pattern p
PatternMatches(p, s) ==
    CASE p = 1 -> Matches1(s)
      [] p = 2 -> Matches2(s)
      [] p = 3 -> Matches3(s)
      [] p = 4 -> Matches4(s)

\* match.group(1).strip() of the leftmost match of ms
Group1(s, ms) ==
    str_strip(CHOOSE g \in {SubSeq(s, m.from, m.to - 1) :
                               m \in {m \in ms : \A o \in ms : m.start <= o.start}} : TRUE)

RECURSIVE PhraseEnd(_, _)
\* a continuation \s+[A-Z][a-z]+ of the phrase that ends at e starts at k
\* and ends at e2
Continues(s, e, k, e2) ==
    /\ e <= Len(s)
    /\ Ch(s, e) \in Space
    /\ k <= Len(s)
    /\ Ch(s, k) \in Upper
    /\ e2 >= k + 2

\* the end the matcher settles on: the end of the longer phrase if there is
\* one, else e if a word boundary is at e, else 0
Settle(s, e, longer) ==
    IF longer # 0 THEN longer
    ELSE IF e > Len(s) \/ Ch(s, e) \notin Word THEN e
    ELSE 0

LongerPhrase(s, e, k) ==
    IF Continues(s, e, k, RunEnd(s, k + 1, Lower))
    THEN PhraseEnd(s, RunEnd(s, k + 1, Lower)) ELSE 0

\* [A-Z][a-z]+ has matched up to e (exclusive): the end of the longest
\* continuation (?:\s+[A-Z][a-z]+)*\b the matcher finds, 0 if there is none
PhraseEnd(s, e) == Settle(s, e, LongerPhrase(s, e, RunEnd(s, e, Space)))

\* the end of the match of \b([A-Z][a-z]+(?:\s+[A-Z][a-z]+)*)\b at i, 0 if none
PhraseAt(s, i) ==
    IF /\ i <= Len(s)
       /\ Ch(s, i) \in Upper
       /\ (i = 1 \/ Ch(s, i - 1) \notin Word)
       /\ RunEnd(s, i + 1, Lower) >= i + 2
    THEN PhraseEnd(s, RunEnd(s, i + 1, Lower))
    ELSE 0

RECURSIVE FindAllFrom(_, _)
\* the scan of re.findall at pos, where the phrase pattern matches up to
\* end (0: no match at pos)
FindAllAt(s, pos, end) ==
    IF end # 0 THEN <<SubSeq(s, pos, end - 1)>> \o FindAllFrom(s, end)
    ELSE FindAllFrom(s, pos + 1)

\* re.findall of the capitalized-phrase pattern, scanning from pos
FindAllFrom(s, pos) ==
    IF pos > Len(s) THEN <<>> ELSE FindAllAt(s, pos, PhraseAt(s, pos))

StopWords == {"the", "and", "for", "with", "from"}

RECURSIVE FirstPatternName(_, _)
\* one turn of the loop with a break after the first match: a pattern that
\* matches with a short group ends the loop without a name
BreakAtFirstMatch(s, p, ms) ==
    IF ms = {} THEN FirstPatternName(s, p + 1)
    ELSE IF Len(Group1(s, ms)) > 2 THEN Group1(s, ms)
    ELSE None

\* one turn of the loop over the patterns: pattern p has the matches ms
PatternTurn(s, p, ms) ==
    IF ms # {} /\ Len(Group1(s, ms)) > 2 THEN Group1(s, ms)
    ELSE FirstPatternName(s, p + 1)

\* the loop over the patterns, from pattern p on: the name it returns, None
\* when it ends without returning
FirstPatternName(s, p) ==
    IF p > 4 THEN None ELSE PatternTurn(s, p, PatternMatches(p, s))

\* the loop over words instead of words[:3]
AmongAllPhrases(words) ==
    FirstStop({i \in 1..Len(words) :
                  /\ Len(words[i]) > 3
                  /\ str_lower(words[i]) \notin StopWords}, Len(words))

\* the loop over words[:3]
FirstSubstantial(words) ==
    FirstStop({i \in 1..Len(words) :
                  /\ i <= 3
                  /\ Len(words[i]) > 3
                  /\ str_lower(words[i]) \notin StopWords}, Len(words))

\* the capitalized-phrase fallback over words = re.findall(...)
FromPhrases(words) ==
    IF FirstSubstantial(words) > Len(words) THEN None ELSE words[FirstSubstantial(words)]

\* the end of _detect_project_name, the pattern loop having returned name
\* or ended (None)
DetectedOr(name, text) ==
    IF name # None THEN name ELSE FromPhrases(FindAllFrom(text, 1))

_detect_project_name(text) ==
    IF ~Truthy(text) THEN None ELSE DetectedOr(FirstPatternName(text, 1), text)

(***************************************************************************)
(* datetime.  A datetime is [year, month, day, hour, minute, second,       *)
(* aware, offset]: aware is whether it has a tzinfo, offset its UTC offset  *)
(* in minutes (0 when naive).  fromisoformat accepts the forms the inputs   *)
(* of the model use: YYYY-MM-DD, optionally followed by one separator       *)
(* character and HH:MM:SS, optionally followed by +HH:MM or -HH:MM.         *)
(***************************************************************************)
IsLeap(y) == y % 4 = 0 /\ (y % 100 # 0 \/ y % 400 = 0)

DaysInMonth(y, m) ==
    IF m = 2 THEN (IF IsLeap(y) THEN 29 ELSE 28)
    ELSE IF m \in {4, 6, 9, 11} THEN 30 ELSE 31

DaysBeforeYear(y) == (y - 1) * 365 + (y - 1) \div 4 - (y - 1) \div 100 + (y - 1) \div 400

RECURSIVE DaysBeforeMonth(_, _)
DaysBeforeMonth(y, m) ==
    IF m = 1 THEN 0 ELSE DaysBeforeMonth(y, m - 1) + DaysInMonth(y, m - 1)

\* date.toordinal
ToOrdinal(y, m, d) == DaysBeforeYear(y) + DaysBeforeMonth(y, m) + d

\* the well-formed YYYY-MM-DD at the head of s
DatePartOk(s) ==
    /\ Len(s) >= 10
    /\ AllDigits(SubSeq(s, 1, 4)) /\ Ch(s, 5) = "-"
    /\ AllDigits(SubSeq(s, 6, 7)) /\ Ch(s, 8) = "-"
    /\ AllDigits(SubSeq(s, 9, 10))
    /\ ParseInt(SubSeq(s, 1, 4)) >= 1
    /\ ParseInt(SubSeq(s, 6, 7)) \in 1..12
    /\ ParseInt(SubSeq(s, 9, 10)) \in
           1..DaysInMonth(ParseInt(SubSeq(s, 1, 4)), ParseInt(SubSeq(s, 6, 7)))

\* the well-formed HH:MM:SS at s[12..19]
TimePartOk(s) ==
    /\ Len(s) >= 19
    /\ AllDigits(SubSeq(s, 12, 13)) /\ Ch(s, 14) = ":"
    /\ AllDigits(SubSeq(s, 15, 16)) /\ Ch(s, 17) = ":"
    /\ AllDigits(SubSeq(s, 18, 19))
    /\ ParseInt(SubSeq(s, 12, 13)) \in 0..23
    /\ ParseInt(SubSeq(s, 15, 16)) \in 0..59
    /\ ParseInt(SubSeq(s, 18, 19)) \in 0..59

\* the well-formed +HH:MM or -HH:MM at s[20..25]
OffsetPartOk(s) ==
    /\ Len(s) = 25
    /\ Ch(s, 20) \in {"+", "-"}
    /\ AllDigits(SubSeq(s, 21, 22)) /\ Ch(s, 23) = ":"
    /\ AllDigits(SubSeq(s, 24, 25))
    /\ ParseInt(SubSeq(s, 21, 22)) \in 0..23
    /\ ParseInt(SubSeq(s, 24, 25)) \in 0..59

IsoFormatOk(s) ==
    /\ DatePartOk(s)
    /\ \/ Len(s) = 10
       \/ TimePartOk(s) /\ (Len(s) = 19 \/ OffsetPartOk(s))

\* datetime.fromisoformat(s): [exc |-> "ValueError"] or the datetime
fromisoformat(s) ==
    IF ~IsoFormatOk(s) THEN [exc |-> "ValueError"]
    ELSE [exc |-> "",
          value |->
            [year |-> ParseInt(SubSeq(s, 1, 4)),
             month |-> ParseInt(SubSeq(s, 6, 7)),
             day |-> ParseInt(SubSeq(s, 9, 10)),
             hour |-> IF Len(s) = 10 THEN 0 ELSE ParseInt(SubSeq(s, 12, 13)),
             minute |-> IF Len(s) = 10 THEN 0 ELSE ParseInt(SubSeq(s, 15, 16)),
             second |-> IF Len(s) = 10 THEN 0 ELSE ParseInt(SubSeq(s, 18, 19)),
             aware |-> Len(s) = 25,
             offset |-> IF Len(s) = 25
                        THEN (IF Ch(s, 20) = "-" THEN -1 ELSE 1)
                             * (60 * ParseInt(SubSeq(s, 21, 22)) + ParseInt(SubSeq(s, 24, 25)))
                        ELSE 0]]

\* datetime.isoformat
isoformat(dt) ==
    Pad(dt.year, 4) \o "-" \o Pad(dt.month, 2) \o "-" \o Pad(dt.day, 2) \o "T"
    \o Pad(dt.hour, 2) \o ":" \o Pad(dt.minute, 2) \o ":" \o Pad(dt.second, 2)
    \o (IF ~dt.aware THEN ""
        ELSE (IF dt.offset < 0 THEN "-" ELSE "+")
             \o Pad((IF dt.offset < 0 THEN -dt.offset ELSE dt.offset) \div 60, 2)
             \o ":"
             \o Pad((IF dt.offset < 0 THEN -dt.offset ELSE dt.offset) % 60, 2))

\* the instant two datetimes of the same kind are compared by: the minute
\* (in UTC for aware ones), then the second
Minute(dt) ==
    ToOrdinal(dt.year, dt.month, dt.day) * 1440 + dt.hour * 60 + dt.minute - dt.offset

\* a < b and a <= b on datetimes of the same kind
Before(a, b) ==
    \/ Minute(a) < Minute(b)
    \/ Minute(a) = Minute(b) /\ a.second < b.second

NotAfter(a, b) == ~Before(b, a)

\* a comparison of some two of the datetimes raises TypeError: an aware one
\* and a naive one are among them
Incomparable(dates) ==
    \E i, j \in 1..Len(dates) : dates[i].aware /\ ~dates[j].aware

\* min(dates) and max(dates) of a non-empty list of comparable datetimes: the
\* first least and the first greatest element
min(dates) ==
    dates[SetMin({i \in 1..Len(dates) :
                     \A j \in 1..Len(dates) : NotAfter(dates[i], dates[j])})]

max(dates) ==
    dates[SetMin({i \in 1..Len(dates) :
                     \A j \in 1..Len(dates) : NotAfter(dates[j], dates[i])})]

\* (month - 1) // 3 + 1 and the label f"Q{q_num} {year}"
QuarterLabel(q_num, y) == "Q" \o IntToStr(q_num) \o " " \o IntToStr(y)

QuarterOf(dt) == QuarterLabel((dt.month - 1) \div 3 + 1, dt.year)

(***************************************************************************)
(* Lists and insertion-ordered dicts.  A bucket dict is a sequence of      *)
(* entries [name, items].                                                  *)
(***************************************************************************)
Range(s) == {s[i] : i \in 1..Len(s)}

\* s[:n] of a list
Take(s, n) == SubSeq(s, 1, IF Len(s) < n THEN Len(s) ELSE n)

RECURSIVE Join(_, _)
\* sep.join(list)
Join(list, sep) ==
    IF list = <<>> THEN ""
    ELSE IF Len(list) = 1 THEN list[1]
    ELSE list[1] \o sep \o Join(Tail(list), sep)

Keys(d) == {d[i].name : i \in 1..Len(d)}

\* d.get(name, [])
Items(d, name) ==
    IF name \in Keys(d) THEN d[CHOOSE i \in 1..Len(d) : d[i].name = name].items ELSE <<>>

\* defaultdict(list): d[name].append(r)
BucketAppend(d, name, r) ==
    IF name \in Keys(d)
    THEN [i \in 1..Len(d) |->
             IF d[i].name = name THEN [d[i] EXCEPT !.items = Append(@, r)] ELSE d[i]]
    ELSE Append(d, [name |-> name, items |-> <<r>>])

\* list(S) for a set S of keyword categories: their order under the
\* process's hash seed
ListOf(S) == SelectSeq(hashseed, LAMBDA c : c \in S)

\* the orders in which a set of str can be iterated
RECURSIVE Orders(_)
Orders(S) ==
    IF S = {} THEN {<<>>}
    ELSE UNION {{<<x>> \o rest : rest \in Orders(S \ {x})} : x \in S}

(***************************************************************************)
(* ProjectAnalyzer                                                         *)
(***************************************************************************)
\* _extract_keywords with the break one level up: only the first keyword
\* of each category is looked for
FirstKeywordOnly(text) ==
    IF ~Truthy(text) THEN {}
    ELSE {category \in DOMAIN project_keywords :
             /\ project_keywords[category] # <<>>
             /\ Contains(str_lower(project_keywords[category][1]), str_lower(text))}

_extract_keywords(text) ==
    IF ~Truthy(text) THEN {}
    ELSE {category \in DOMAIN project_keywords :
             \E k \in 1..Len(project_keywords[category]) :
                 Contains(str_lower(project_keywords[category][k]), str_lower(text))}

\* the cascade of _categorize_project with the priority of its first two
\* rules exchanged
SecurityBeforeAi(keywords, title) ==
    IF "security" \in keywords \/ Contains("rbac", str_lower(title))
       \/ Contains("auth", str_lower(title))
    THEN "security"
    ELSE IF "ai" \in keywords \/ Contains("klaudia", str_lower(title))
            \/ Contains("remediation", str_lower(title))
    THEN "ai"
    ELSE IF "cost" \in keywords \/ Contains("finops", str_lower(title))
            \/ Contains("hpa", str_lower(title))
    THEN "cost"
    ELSE IF "performance" \in keywords \/ Contains("perf", str_lower(title))
            \/ Contains("optimize", str_lower(title))
    THEN "perf"
    ELSE IF "infrastructure" \in keywords \/ Contains("infra", str_lower(title))
            \/ Contains("deployment", str_lower(title))
    THEN "infra"
    ELSE IF "team" \in keywords \/ Contains("interview", str_lower(title))
            \/ Contains("hiring", str_lower(title))
    THEN "team"
    ELSE "feature"

_categorize_project(keywords, title) ==
    IF "ai" \in keywords \/ Contains("klaudia", str_lower(title))
       \/ Contains("remediation", str_lower(title))
    THEN "ai"
    ELSE IF "security" \in keywords \/ Contains("rbac", str_lower(title))
            \/ Contains("auth", str_lower(title))
    THEN "security"
    ELSE IF "cost" \in keywords \/ Contains("finops", str_lower(title))
            \/ Contains("hpa", str_lower(title))
    THEN "cost"
    ELSE IF "performance" \in keywords \/ Contains("perf", str_lower(title))
            \/ Contains("optimize", str_lower(title))
    THEN "perf"
    ELSE IF "infrastructure" \in keywords \/ Contains("infra", str_lower(title))
            \/ Contains("deployment", str_lower(title))
    THEN "infra"
    ELSE IF "team" \in keywords \/ Contains("interview", str_lower(title))
            \/ Contains("hiring", str_lower(title))
    THEN "team"
    ELSE "feature"

\* icon_map without its last entry: team gets the default
WithoutTeamEntry(category) ==
    CASE category = "infra" -> "icon-infra"
      [] category = "feature" -> "icon-feature"
      [] category = "perf" -> "icon-perf"
      [] category = "security" -> "icon-security"
      [] category = "ai" -> "icon-ai"
      [] category = "cost" -> "icon-cost"
      [] OTHER -> "icon-feature"

_get_icon_class(category) ==
    CASE category = "infra" -> "icon-infra"
      [] category = "feature" -> "icon-feature"
      [] category = "perf" -> "icon-perf"
      [] category = "security" -> "icon-security"
      [] category = "ai" -> "icon-ai"
      [] category = "cost" -> "icon-cost"
      [] category = "team" -> "icon-team"
      [] OTHER -> "icon-feature"

\* the glyphs of emoji_map, each written as its name
_get_icon_emoji(category) ==
    CASE category = "infra" -> "building construction"
      [] category = "feature" -> "anchor"
      [] category = "perf" -> "high voltage"
      [] category = "security" -> "locked with key"
      [] category = "ai" -> "brain"
      [] category = "cost" -> "money bag"
      [] category = "team" -> "busts in silhouette"
      [] OTHER -> "package"

\* a or b
Or(a, b) == IF Truthy(a) THEN a ELSE b

\* the name a record is filed under, given the name detected in its fields
\* and the keywords of its text: None when there is neither
NameFrom(project_name, keywords) ==
    IF Truthy(project_name) THEN project_name
    ELSE IF keywords # {} THEN str_title(ListOf(keywords)[1]) \o " Initiative"
    ELSE None

\* the name of a record with the two calls of _detect_project_name
\* exchanged: the second text field is tried before the title
SecondFieldFirst(record, second) ==
    NameFrom(Or(_detect_project_name(Get(record, second, "")),
                _detect_project_name(Get(record, "title", ""))),
             _extract_keywords(Str(Get(record, "title", "")) \o " "
                               \o Str(Get(record, second, ""))))

\* the body of the loops of analyze_prs and analyze_calendar_events up to
\* the else branch; second is the record's second text field
RecordName(record, second) ==
    NameFrom(Or(_detect_project_name(Get(record, "title", "")),
                _detect_project_name(Get(record, second, ""))),
             _extract_keywords(Str(Get(record, "title", "")) \o " "
                               \o Str(Get(record, second, ""))))

\* the else branch of analyze_prs
OrOtherWork(name) == IF name = None THEN "Other Work" ELSE name

RECURSIVE AnalyzePrsFrom(_, _)
\* the loop of analyze_prs over the PRs still to visit
AnalyzePrsFrom(rest, project_prs) ==
    IF rest = <<>> THEN project_prs
    ELSE AnalyzePrsFrom(Tail(rest),
             BucketAppend(project_prs, OrOtherWork(RecordName(Head(rest), "body")),
                          Head(rest)))

\* analyze_prs with the else branch of analyze_calendar_events: a PR with
\* no name and no keyword is skipped
SkippingUnnamed(prs_) ==
    AnalyzePrsFrom(SelectSeq(prs_, LAMBDA pr : RecordName(pr, "body") # None), <<>>)

analyze_prs(prs_) == AnalyzePrsFrom(prs_, <<>>)

\* the end of the loop body of analyze_calendar_events: continue, or append
FileEvent(project_events, name, event) ==
    IF name = None THEN project_events ELSE BucketAppend(project_events, name, event)

RECURSIVE AnalyzeEventsFrom(_, _)
\* the loop of analyze_calendar_events over the events still to visit
AnalyzeEventsFrom(rest, project_events) ==
    IF rest = <<>> THEN project_events
    ELSE AnalyzeEventsFrom(Tail(rest),
             FileEvent(project_events, RecordName(Head(rest), "description"), Head(rest)))

analyze_calendar_events(events_) == AnalyzeEventsFrom(events_, <<>>)

(***************************************************************************)
(* _generate_description                                                   *)
(***************************************************************************)
\* the titles of all the PRs, prs in the place of prs[:5]
AllPrTitles(prs_) == [i \in 1..Len(prs_) |-> Get(prs_[i], "title", "")]

\* [pr.get('title', '') for pr in prs[:5]]
PrTitles(prs_) == [i \in 1..Len(Take(prs_, 5)) |-> Get(prs_[i], "title", "")]

\* [e.get('title', '') for e in events[:3]]
EventTitles(events_) == [i \in 1..Len(Take(events_, 3)) |-> Get(events_[i], "title", "")]

\* the loop over pr_titles: it stops at the first title longer than 20 and
\* appends it; len() of a title that is None raises TypeError, written here
\* as the list <<None>>
FromPrTitles(pr_titles) ==
    IF \A i \in 1..Len(pr_titles) : pr_titles[i] # None /\ Len(pr_titles[i]) <= 20
    THEN <<>>
    ELSE <<pr_titles[SetMin({i \in 1..Len(pr_titles) :
                                pr_titles[i] = None \/ Len(pr_titles[i]) > 20})]>>

RECURSIVE FromEventTitles(_, _)
\* the loop over event_titles, none of which is None
FromEventTitles(titles, descriptions) ==
    IF titles = <<>> THEN descriptions
    ELSE FromEventTitles(Tail(titles),
             IF Len(Head(titles)) > 15 /\ Head(titles) \notin Range(descriptions)
             THEN Append(descriptions, Head(titles))
             ELSE descriptions)

\* the cut made at 100 characters, before the dots are added
CutAtHundred(main_desc) ==
    IF Len(main_desc) > 100 THEN SubSeq(main_desc, 1, 100) \o "..." ELSE main_desc

\* main_desc[:97] + "..." when main_desc is longer than 100
Shorten(main_desc) ==
    IF Len(main_desc) > 100 THEN SubSeq(main_desc, 1, 97) \o "..." ELSE main_desc

\* the end of _generate_description, from "if descriptions:" on
Describe(descriptions, project_name, keywords) ==
    IF descriptions # <<>> THEN Shorten(descriptions[1])
    ELSE IF keywords # {}
    THEN project_name \o " initiative focusing on "
         \o Join(Take(ListOf(keywords), 2), ", ") \o "."
    ELSE project_name \o " project work throughout the year."

\* _generate_description, the PR loop having left from_prs
DescribeFrom(from_prs, event_titles, project_name) ==
    IF None \in Range(from_prs) \/ None \in Range(event_titles)
    THEN [exc |-> "TypeError"]
    ELSE [exc |-> "",
          value |-> Describe(FromEventTitles(event_titles, from_prs), project_name,
                             _extract_keywords(project_name))]

\* _generate_description: [exc |-> "", value |-> the description], or
\* [exc |-> "TypeError"] when len() is applied to a title that is None
_generate_description(prs_, events_, project_name) ==
    DescribeFrom(FromPrTitles(PrTitles(prs_)), EventTitles(events_), project_name)

(***************************************************************************)
(* merge_projects                                                          *)
(***************************************************************************)
\* sample_text with the two branches exchanged: the first event is looked
\* at before the first PR
EventTextFirst(prs_, events_) ==
    IF events_ # <<>>
    THEN Str(Get(events_[1], "title", "")) \o " "
         \o Str(Get(events_[1], "description", ""))
    ELSE IF prs_ # <<>>
    THEN Str(Get(prs_[1], "title", "")) \o " " \o Str(Get(prs_[1], "body", ""))
    ELSE ""

\* sample_text
SampleText(prs_, events_) ==
    IF prs_ # <<>>
    THEN Str(Get(prs_[1], "title", "")) \o " " \o Str(Get(prs_[1], "body", ""))
    ELSE IF events_ # <<>>
    THEN Str(Get(events_[1], "title", "")) \o " "
         \o Str(Get(events_[1], "description", ""))
    ELSE ""

\* the PRs that have a created_at
DatedPrs(prs_) == SelectSeq(prs_, LAMBDA pr : Truthy(Get(pr, "created_at", None)))

\* the calls of fromisoformat in the loop over the PRs
ParsePrDates(dated_prs) ==
    [i \in 1..Len(dated_prs) |->
        fromisoformat(str_replace(dated_prs[i].created_at, "Z", "+00:00"))]

PrDates(prs_) == ParsePrDates(DatedPrs(prs_))

\* the event's date parses; the except clause passes over the others
EventDateParses(event) ==
    Truthy(Get(event, "date", None)) /\ fromisoformat(event.date).exc = ""

\* the datetimes the loop over the events appends
ParseEventDates(dated_events) ==
    [i \in 1..Len(dated_events) |-> fromisoformat(dated_events[i].date).value]

EventDates(events_) == ParseEventDates(SelectSeq(events_, EventDateParses))

\* quarter worked out from the last date instead of the first
QuarterOfEnd(dates) == IF dates # <<>> THEN QuarterOf(max(dates)) ELSE None

\* quarter
Quarter(dates) == IF dates # <<>> THEN QuarterOf(min(dates)) ELSE None

\* github_links and calendar_links
GithubLinks(linked_prs) ==
    [i \in 1..Len(linked_prs) |->
        [text |-> Get(linked_prs[i], "title", ""),
         url |-> Get(linked_prs[i], "url", ""),
         date |-> Prefix(Get(linked_prs[i], "created_at", ""), 10)]]

CalendarLinks(linked_events) ==
    [i \in 1..Len(linked_events) |->
        [text |-> Get(linked_events[i], "title", ""),
         url |-> "#",
         date |-> Prefix(Get(linked_events[i], "date", ""), 10)]]

LinkedPrs(prs_) == SelectSeq(prs_, LAMBDA pr : Truthy(Get(pr, "url", None)))
\* every event is linked, the one with no title too
EveryEvent(events_) == events_

LinkedEvents(events_) == SelectSeq(events_, LAMBDA e : Truthy(Get(e, "title", None)))

\* slicing a created_at or a date that is None raises TypeError
LinksRaise(linked_prs, linked_events) ==
    \/ \E i \in 1..Len(linked_prs) : Get(linked_prs[i], "created_at", "") = None
    \/ \E i \in 1..Len(linked_events) : Get(linked_events[i], "date", "") = None

\* merged[project_name] = {...}
ProjectRecord(project_name, prs_, events_, keywords, category, dates, description) ==
    [name |-> project_name,
     category |-> category,
     icon_class |-> _get_icon_class(category),
     icon_emoji |-> _get_icon_emoji(category),
     start_date |-> IF dates # <<>> THEN isoformat(min(dates)) ELSE None,
     end_date |-> IF dates # <<>> THEN isoformat(max(dates)) ELSE None,
     quarter |-> Quarter(dates),
     description |-> description,
     prs |-> prs_,
     events |-> events_,
     github_links |-> GithubLinks(LinkedPrs(prs_)),
     calendar_links |-> CalendarLinks(LinkedEvents(events_)),
     tags |-> IF keywords # {} THEN ListOf(keywords) ELSE <<category>>]

\* the loop body from the call of _generate_description on
MergeDescribed(project_name, prs_, events_, keywords, dates, description) ==
    IF description.exc # "" THEN [exc |-> description.exc]
    ELSE IF LinksRaise(LinkedPrs(prs_), LinkedEvents(events_)) THEN [exc |-> "TypeError"]
    ELSE [exc |-> "", skip |-> FALSE,
          value |-> ProjectRecord(project_name, prs_, events_, keywords,
                                  _categorize_project(keywords, project_name),
                                  dates, description.value)]

\* the loop body from min(dates) on; min and max raise TypeError when they
\* compare an aware datetime with a naive one
MergeDated(project_name, prs_, events_, keywords, dates) ==
    IF Incomparable(dates) THEN [exc |-> "TypeError"]
    ELSE MergeDescribed(project_name, prs_, events_, keywords, dates,
                        _generate_description(prs_, events_, project_name))

\* the loop body from "dates = []" on; a created_at that fromisoformat
\* rejects raises ValueError
MergeDates(project_name, prs_, events_, keywords, pr_dates, event_dates) ==
    IF \E i \in 1..Len(pr_dates) : pr_dates[i].exc # "" THEN [exc |-> "ValueError"]
    ELSE MergeDated(project_name, prs_, events_, keywords,
                    [i \in 1..Len(pr_dates) |-> pr_dates[i].value] \o event_dates)

\* the loop body after the continue
MergeDetails(project_name, prs_, events_) ==
    MergeDates(project_name, prs_, events_, _extract_keywords(SampleText(prs_, events_)),
               PrDates(prs_), EventDates(events_))

\* the loop body without its continue: a name with no record is merged too
KeepingEmpty(project_name, prs_, events_) == MergeDetails(project_name, prs_, events_)

\* the body of the loop of merge_projects for the records of one name:
\* [exc |-> "", skip |-> TRUE] at the continue, [exc |-> "", skip |-> FALSE,
\* value |-> the project] when the project is stored, [exc |-> e] when the
\* body raises e
MergeBody(project_name, prs_, events_) ==
    IF prs_ = <<>> /\ events_ = <<>> THEN [exc |-> "", skip |-> TRUE]
    ELSE MergeDetails(project_name, prs_, events_)

MergeOne(project_name, pr_projects_, event_projects_) ==
    MergeBody(project_name, Items(pr_projects_, project_name),
              Items(event_projects_, project_name))

RECURSIVE MergeFrom(_, _, _, _)
\* one turn of the loop, the body having ended as one
MergeTurn(one, names, pr_projects_, event_projects_, merged) ==
    IF one.exc # "" THEN [exc |-> one.exc]
    ELSE MergeFrom(Tail(names), pr_projects_, event_projects_,
                   IF one.skip THEN merged ELSE Append(merged, one.value))

\* the loop of merge_projects over the names still to visit
MergeFrom(names, pr_projects_, event_projects_, merged) ==
    IF names = <<>> THEN [exc |-> "", value |-> merged]
    ELSE MergeTurn(MergeOne(Head(names), pr_projects_, event_projects_),
                   names, pr_projects_, event_projects_, merged)

\* merge_projects with all_project_names = set(pr_projects.keys()): the
\* names that only the events have are not merged
OnlyPrNames(pr_projects_, event_projects_, all_project_names) ==
    MergeFrom(SelectSeq(all_project_names, LAMBDA name : name \in Keys(pr_projects_)),
              pr_projects_, event_projects_, <<>>)

\* merge_projects; all_project_names is the set of names in the order the
\* loop iterates over it
merge_projects(pr_projects_, event_projects_, all_project_names) ==
    MergeFrom(all_project_names, pr_projects_, event_projects_, <<>>)

(***************************************************************************)
(* organize_by_quarter                                                     *)
(***************************************************************************)
\* the year written in the quarter labels of organize_by_quarter
LabelYear == 2025

\* the keys of the dict quarters
QuarterKeys == {QuarterLabel(n, LabelYear) : n \in 1..4}

\* quarters[key].append(project)
QuarterAppend(quarters_, key, project) ==
    [quarters_ EXCEPT ![key] = Append(@, project)]

\* the try block: q_key when the start date parses and q_key is a key, else
\* the default
InferredKey(dt, quarters_) ==
    IF dt.exc = "" /\ QuarterOf(dt.value) \in DOMAIN quarters_
    THEN QuarterOf(dt.value)
    ELSE QuarterLabel(1, LabelYear)

\* the key of the bucket the loop body appends the project to
BucketKey(quarter, start_date, quarters_) ==
    IF Truthy(quarter) /\ quarter \in DOMAIN quarters_ THEN quarter
    ELSE IF Truthy(start_date) THEN InferredKey(fromisoformat(start_date), quarters_)
    ELSE QuarterLabel(1, LabelYear)

RECURSIVE OrganizeFrom(_, _)
\* the loop of organize_by_quarter over the projects still to visit
OrganizeFrom(rest, quarters_) ==
    IF rest = <<>> THEN quarters_
    ELSE OrganizeFrom(Tail(rest),
             QuarterAppend(quarters_,
                           BucketKey(Get(Head(rest), "quarter", None),
                                     Get(Head(rest), "start_date", None), quarters_),
                           Head(rest)))

\* the sort key: p.get('start_date', '')
SortKey(project) == Get(project, "start_date", "")

RECURSIVE InsertSorted(_, _)
\* p inserted after every element whose key is not greater than its own
InsertSorted(sorted, p) ==
    IF sorted = <<>> THEN <<p>>
    ELSE IF StrLess(SortKey(p), SortKey(sorted[Len(sorted)]))
    THEN Append(InsertSorted(SubSeq(sorted, 1, Len(sorted) - 1), p), sorted[Len(sorted)])
    ELSE Append(sorted, p)

RECURSIVE SortFrom(_, _)
SortFrom(rest, sorted) ==
    IF rest = <<>> THEN sorted ELSE SortFrom(Tail(rest), InsertSorted(sorted, Head(rest)))

\* list.sort(key=...): stable, ascending; comparing None with anything
\* raises TypeError, and a list of two or more elements compares every key
list_sort(items) ==
    IF Len(items) >= 2 /\ \E i \in 1..Len(items) : SortKey(items[i]) = None
    THEN [exc |-> "TypeError"]
    ELSE [exc |-> "", value |-> SortFrom(items, <<>>)]

\* the loop that sorts each bucket
SortBuckets(quarters_) ==
    IF \E q \in DOMAIN quarters_ : list_sort(quarters_[q]).exc # ""
    THEN [exc |-> "TypeError"]
    ELSE [exc |-> "", value |-> [q \in DOMAIN quarters_ |-> list_sort(quarters_[q]).value]]

\* organize_by_quarter: [exc |-> "", value |-> the dict quarters], a function
\* from the quarter labels to lists of projects, or [exc |-> "TypeError"]
organize_by_quarter(projects_) ==
    SortBuckets(OrganizeFrom(projects_, [q \in QuarterKeys |-> <<>>]))

(***************************************************************************)
(* The inputs of the model: keyword configurations, target years, and     *)
(* pull-request and calendar-event records.                                *)
(***************************************************************************)
\* a dict with no key
EmptyDict == <<>>

KeywordConfigs ==
    {EmptyDict,
     [security |-> <<"rbac">>],
     [security |-> <<"auth", "rbac">>, cost |-> <<"cost", "finops">>]}

Years == {2024, 2025}

\* the first PR and the first event of the test data of project_analyzer.py
ScenarioPR ==
    [title |-> "RBAC V2 Implementation", body |-> "Role-based access control",
     created_at |-> "2025-01-15T10:00:00Z", url |-> "https://github.com/test/pr/1"]

ScenarioEvent == [title |-> "RBAC kickoff meeting", date |-> "2025-01-10"]

\* a PR github_collector hands over with an empty description
TwoCategoryPR ==
    [title |-> "fix auth cost", body |-> None,
     created_at |-> "2025-07-04T09:30:00Z", url |-> "https://github.com/test/pr/2"]

UndatedPR == [title |-> "tidy up", body |-> ""]

BadDatePR ==
    [title |-> "Helm Drift Detection", body |-> "Helm comparison capabilities",
     created_at |-> "not-a-date", url |-> "https://github.com/test/pr/4"]

PullRequests == {ScenarioPR, TwoCategoryPR, UndatedPR, BadDatePR}

GenericEvent == [title |-> "standup"]

BadDateEvent == [title |-> "Helm sync", date |-> "soon"]

LastYearEvent ==
    [title |-> "Apollo project review", description |-> "cost review",
     date |-> "2024-11-05"]

CalendarEvents == {ScenarioEvent, GenericEvent, BadDateEvent, LastYearEvent}

\* the lists of exactly n elements of S, and of at most n
RECURSIVE ListsOf(_, _)
ListsOf(S, n) ==
    IF n = 0 THEN {<<>>} ELSE {Append(l, x) : l \in ListsOf(S, n - 1), x \in S}

ListsUpTo(S, n) == UNION {ListsOf(S, k) : k \in 0..n}

\* a member's data: at most MaxRecords records
Collected ==
    {d \in [prs : ListsUpTo(PullRequests, MaxRecords),
            events : ListsUpTo(CalendarEvents, MaxRecords)] :
        Len(d.prs) + Len(d.events) <= MaxRecords}

\* the process has loaded the configuration; its hash seed is any
Configured ==
    /\ project_keywords \in KeywordConfigs
    /\ hashseed \in Orders(DOMAIN project_keywords)

\* the values of the pipeline's results before the call that sets them
NoCallYet ==
    /\ pr_projects = <<>>
    /\ event_projects = <<>>
    /\ projects = <<>>
    /\ quarters = <<>>
    /\ exc = ""

NoUnitCall == unit_in = <<>> /\ unit_out = None

(***************************************************************************)
(* The pipeline of collect_data.main for one member: analyze_projects,     *)
(* then generate_individual_page.  A call that raises ends the process:    *)
(* exc holds the exception and pc stays at the call.                       *)
(***************************************************************************)
\* a fresh process has loaded the configuration and is about to call
\* analyze_projects on a member's data: PR and event records built from the
\* documented fields title, body or description, created_at or date, url
Init ==
    /\ NothingElse
    /\ Configured
    /\ year \in Years
    /\ \E d \in Collected : prs = d.prs /\ events = d.events
    /\ pc = "analyze_prs"
    /\ run = 1
    /\ first_projects = <<>>
    /\ NoCallYet
    /\ NoUnitCall

\* collect_data.analyze_projects: pr_projects = analyzer.analyze_prs(prs)
AnalyzePrs ==
    /\ pc = "analyze_prs" /\ exc = ""
    /\ pr_projects' = analyze_prs(prs)
    /\ pc' = "analyze_calendar_events"
    /\ UNCHANGED <<project_keywords, year, prs, events, hashseed, event_projects,
                   projects, quarters, exc, run, first_projects, unit_in, unit_out>>
    /\ UNCHANGED other_vars

\* event_projects = analyzer.analyze_calendar_events(events)
AnalyzeCalendarEvents ==
    /\ pc = "analyze_calendar_events" /\ exc = ""
    /\ event_projects' = analyze_calendar_events(events)
    /\ pc' = "merge_projects"
    /\ UNCHANGED <<project_keywords, year, prs, events, hashseed, pr_projects,
                   projects, quarters, exc, run, first_projects, unit_in, unit_out>>
    /\ UNCHANGED other_vars

\* the call has ended as r: it returned r.value, or raised r.exc
Returned(r) == r.exc = ""

\* projects = analyzer.merge_projects(pr_projects, event_projects); the set
\* all_project_names is iterated in an order the hash seed decides
MergeProjects ==
    /\ pc = "merge_projects" /\ exc = ""
    /\ \E all_project_names \in Orders(Keys(pr_projects) \cup Keys(event_projects)) :
          \E r \in {merge_projects(pr_projects, event_projects, all_project_names)} :
              /\ projects' = IF Returned(r) THEN r.value ELSE projects
              /\ pc' = IF Returned(r) THEN "organize_by_quarter" ELSE pc
              /\ exc' = r.exc
    /\ UNCHANGED <<project_keywords, year, prs, events, hashseed, pr_projects,
                   event_projects, quarters, run, first_projects, unit_in, unit_out>>
    /\ UNCHANGED other_vars

\* generate_pages.generate_individual_page(member, data, projects, year):
\* quarters = analyzer.organize_by_quarter(projects)
OrganizeByQuarter ==
    /\ pc = "organize_by_quarter" /\ exc = ""
    /\ \E r \in {organize_by_quarter(projects)} :
          /\ quarters' = IF Returned(r) THEN r.value ELSE quarters
          /\ pc' = IF Returned(r) THEN "done" ELSE pc
          /\ exc' = r.exc
    /\ UNCHANGED <<project_keywords, year, prs, events, hashseed, pr_projects,
                   event_projects, projects, run, first_projects, unit_in, unit_out>>
    /\ UNCHANGED other_vars

Next ==
    \/ AnalyzePrs
    \/ AnalyzeCalendarEvents
    \/ MergeProjects
    \/ OrganizeByQuarter

Spec == Init /\ [][Next]_vars

(***************************************************************************)
(* The analysis run again.  Each run of the script is a new process, with *)
(* a hash seed of its own; project_analyzer.py run as a script analyses    *)
(* the same records under the same configuration in every run.             *)
(***************************************************************************)
Rerun ==
    /\ pc = "organize_by_quarter" /\ exc = ""
    /\ run < MaxRuns
    /\ run' = run + 1
    /\ first_projects' = IF run = 1 THEN projects ELSE first_projects
    /\ hashseed' \in Orders(DOMAIN project_keywords)
    /\ pc' = "analyze_prs"
    /\ pr_projects' = <<>>
    /\ event_projects' = <<>>
    /\ projects' = <<>>
    /\ UNCHANGED <<project_keywords, year, prs, events, quarters, exc, unit_in, unit_out>>
    /\ UNCHANGED other_vars

InitRerun == Init /\ year = LabelYear

NextRerun ==
    \/ AnalyzePrs
    \/ AnalyzeCalendarEvents
    \/ MergeProjects
    \/ Rerun

SpecRerun == InitRerun /\ [][NextRerun]_vars

(***************************************************************************)
(* merge_projects called on its own, with any two bucket dicts: a name may *)
(* be mapped to an empty list.                                             *)
(***************************************************************************)
DirectNames == <<"RBAC", "Helm">>

RECURSIVE DictsOver(_, _)
\* the bucket dicts whose keys are among names and whose lists hold at most
\* MaxBucket of the records
DictsOver(names, records) ==
    IF names = <<>> THEN {<<>>}
    ELSE UNION {{d, <<[name |-> Head(names), items |-> l]>> \o d} :
                   l \in ListsUpTo(records, MaxBucket),
                   d \in DictsOver(Tail(names), records)}

InitMerge ==
    /\ NothingElse
    /\ Configured
    /\ year = LabelYear
    /\ prs = <<>>
    /\ events = <<>>
    /\ pr_projects \in DictsOver(DirectNames, {ScenarioPR, UndatedPR})
    /\ event_projects \in DictsOver(DirectNames, {ScenarioEvent, BadDateEvent})
    /\ projects = <<>>
    /\ quarters = <<>>
    /\ exc = ""
    /\ pc = "merge_projects"
    /\ run = 1
    /\ first_projects = <<>>
    /\ NoUnitCall

SpecMerge == InitMerge /\ [][MergeProjects]_vars

(***************************************************************************)
(* merge_projects called on the records of one project, PRs or events,     *)
(* with timestamps in every quarter.                                       *)
(***************************************************************************)
\* created_at as the API writes it, and with a UTC offset that puts the
\* local date and the UTC date in different years
CreatedAts ==
    {"2025-01-15T10:00:00Z", "2025-03-31T23:59:59Z", "2025-04-01T00:00:00Z",
     "2025-07-04T09:30:00Z", "2025-12-31T18:00:00-08:00"}

DatedPRs ==
    {[title |-> "Helm Drift Detection", created_at |-> c,
      url |-> "https://github.com/test/pr/2"] : c \in CreatedAts}
    \cup {[title |-> "Helm Drift Detection", body |-> ""],
          [title |-> "Helm chart bump", url |-> "https://github.com/test/pr/7"],
          [title |-> "Helm chart lint", created_at |-> "2025-07-04T09:30:00Z",
           url |-> ""]}

EventDays == {"2024-11-05", "2025-01-10", "2025-06-30", "2025-10-01"}

DatedEvents ==
    {[title |-> "Helm sync", date |-> d] : d \in EventDays}
    \cup {[title |-> "Helm sync"], [title |-> "", date |-> "2025-06-30"]}

\* the bucket dict of one project with the records items, none if no record
OneBucket(items) == IF items = <<>> THEN <<>> ELSE <<[name |-> "Helm", items |-> items]>>

InitDated ==
    /\ NothingElse
    /\ project_keywords = EmptyDict
    /\ hashseed = <<>>
    /\ year = LabelYear
    /\ prs = <<>>
    /\ events = <<>>
    /\ \E l \in ListsUpTo(DatedPRs, MaxDated), e \in ListsUpTo(DatedEvents, MaxDated) :
          /\ l = <<>> \/ e = <<>>
          /\ pr_projects = OneBucket(l)
          /\ event_projects = OneBucket(e)
    /\ projects = <<>>
    /\ quarters = <<>>
    /\ exc = ""
    /\ pc = "merge_projects"
    /\ run = 1
    /\ first_projects = <<>>
    /\ NoUnitCall

SpecDated == InitDated /\ [][MergeProjects]_vars

(***************************************************************************)
(* One method called on its own.                                           *)
(***************************************************************************)
\* the keywords _categorize_project looks for
CategoryKeywords == {"ai", "security", "cost", "performance", "infrastructure", "team"}

Titles ==
    {"", "Other Work", "x remediation", "Klaudia bot", "RBAC", "Auth remediation",
     "Finops", "HPA tuning", "perf", "Optimize build", "Infra", "Deployment hiring",
     "interview loop", "Hiring", "Security Initiative", "Helm"}

InitUnit ==
    /\ NothingElse
    /\ project_keywords = EmptyDict
    /\ hashseed = <<>>
    /\ year = LabelYear
    /\ prs = <<>>
    /\ events = <<>>
    /\ NoCallYet
    /\ run = 1
    /\ first_projects = <<>>
    /\ pc = "_categorize_project"
    /\ unit_in \in [keywords : SUBSET CategoryKeywords, title : Titles]
    /\ unit_out = None

\* category = self._categorize_project(keywords, title)
CallCategorizeProject ==
    /\ pc = "_categorize_project"
    /\ unit_out' = _categorize_project(unit_in.keywords, unit_in.title)
    /\ pc' = "done"
    /\ UNCHANGED <<project_keywords, year, prs, events, hashseed, pr_projects,
                   event_projects, projects, quarters, exc, run, first_projects, unit_in>>
    /\ UNCHANGED other_vars

SpecUnit == InitUnit /\ [][CallCategorizeProject]_vars

(***************************************************************************)
(* The helper methods of ProjectAnalyzer, each called on its own on an     *)
(* analyzer constructed with one of the configurations.                    *)
(***************************************************************************)
\* texts for _detect_project_name: None and the empty text; texts one
\* pattern matches; texts several patterns match; texts whose first
\* matching pattern captures two characters or fewer; texts only the
\* capitalized-phrase scan finds a name in; texts with no name
DetectTexts ==
    {None, "", "RBAC v2 kickoff", "RBAC kickoff meeting", "Go v2",
     "UI integration", "AI v2 Helm project", "DB phase 2 Migration Plan",
     "kickoff: Apollo Launch", "sync: UI with Design", "Apollo project kickoff",
     "Apollo project review", "Helm effort by Ops", "go v2 rollout by Friday",
     "Pairing with Dana", "QA by Friday", "The Big Plan", "The plan",
     "From here", "Helm Drift Detection", "weekly sync", "tidy up",
     "Role-based access control", "Go, Rom, And, Helm", "With, From, Bob, Helm",
     "Go, Rom, Helm, Apollo", "From, Helm"}

DetectCalls == [method : {"_detect_project_name"}, text : DetectTexts]

RECURSIVE Repeat(_, _)
\* s * n
Repeat(s, n) == IF n = 0 THEN "" ELSE s \o Repeat(s, n - 1)

\* a title of n characters
TitleOfLength(n) == Prefix(Repeat("Helm drift ", 14), n)

\* PR titles at and around the lengths _generate_description compares
\* with, and a title that is null
PrTitleLengths == {0, 20, 21, 100, 101, 150}

TitledPRs == {[title |-> TitleOfLength(n)] : n \in PrTitleLengths} \cup {[title |-> None]}

EventTitleLengths == {15, 16, 120}

TitledEvents == {[title |-> TitleOfLength(n)] : n \in EventTitleLengths}

DescribeCalls ==
    [method : {"_generate_description"},
     prs : ListsUpTo(TitledPRs, MaxTitles),
     events : ListsUpTo(TitledEvents, 1),
     project_name : {"Helm", "RBAC"}]

\* k records too short to describe a project, then one that is long enough
Padded(short, long, k) == [i \in 1..(k + 1) |-> IF i <= k THEN short ELSE long]

\* calls whose only title long enough is at any place of the PRs, up to
\* the place after those _generate_description looks at, and likewise for
\* the events
PaddedCalls ==
    [method : {"_generate_description"},
     prs : {<<>>} \cup {Padded([title |-> "fix typo"],
                               [title |-> "Helm Drift Detection rollout"], k) :
                           k \in 0..MaxPadding},
     events : {<<>>} \cup {Padded([title |-> "standup"],
                                  [title |-> "Helm sync with platform"], k) :
                              k \in 0..MaxPadding},
     project_name : {"Helm"}]

\* texts for _extract_keywords: None and the empty text, texts with the
\* keywords of the configurations in either case, and texts without
KeywordTexts ==
    {None, "", "RBAC v2 kickoff", "fix auth cost None", "FinOps review",
     "Authentication", "standup", "r bac", "Cost: rbac", "au"}

ExtractCalls == [method : {"_extract_keywords"}, text : KeywordTexts]

\* the configurations of the analyzer that is called: those of the
\* pipeline, and one with its keywords in capitals and in another order
CallConfigs ==
    KeywordConfigs \cup {[security |-> <<"RBAC", "Auth">>, cost |-> <<"FinOps", "cost">>]}

\* the categories _categorize_project returns, and others
IconCategories ==
    {"infra", "feature", "perf", "security", "ai", "cost", "team", "docs", "Team", ""}

IconCalls == [method : {"_get_icon_class"}, category : IconCategories]

Calls == DetectCalls \cup DescribeCalls \cup ExtractCalls \cup IconCalls \cup PaddedCalls

InitCall ==
    /\ NothingElse
    /\ project_keywords \in CallConfigs
    /\ hashseed \in Orders(DOMAIN project_keywords)
    /\ year = LabelYear
    /\ prs = <<>>
    /\ events = <<>>
    /\ NoCallYet
    /\ run = 1
    /\ first_projects = <<>>
    /\ pc = "call"
    /\ unit_in \in Calls
    /\ unit_out = None

\* self._detect_project_name(text)
CallDetectProjectName ==
    /\ pc = "call"
    /\ unit_in.method = "_detect_project_name"
    /\ unit_out' = _detect_project_name(unit_in.text)
    /\ pc' = "done"
    /\ UNCHANGED <<project_keywords, year, prs, events, hashseed, pr_projects,
                   event_projects, projects, quarters, exc, run, first_projects, unit_in>>
    /\ UNCHANGED other_vars

\* description = self._generate_description(prs, events, project_name)
CallGenerateDescription ==
    /\ pc = "call"
    /\ unit_in.method = "_generate_description"
    /\ unit_out' = _generate_description(unit_in.prs, unit_in.events, unit_in.project_name)
    /\ pc' = "done"
    /\ UNCHANGED <<project_keywords, year, prs, events, hashseed, pr_projects,
                   event_projects, projects, quarters, exc, run, first_projects, unit_in>>
    /\ UNCHANGED other_vars

\* keywords = self._extract_keywords(text)
CallExtractKeywords ==
    /\ pc = "call"
    /\ unit_in.method = "_extract_keywords"
    /\ unit_out' = _extract_keywords(unit_in.text)
    /\ pc' = "done"
    /\ UNCHANGED <<project_keywords, year, prs, events, hashseed, pr_projects,
                   event_projects, projects, quarters, exc, run, first_projects, unit_in>>
    /\ UNCHANGED other_vars

\* 'icon_class': self._get_icon_class(category)
CallGetIconClass ==
    /\ pc = "call"
    /\ unit_in.method = "_get_icon_class"
    /\ unit_out' = _get_icon_class(unit_in.category)
    /\ pc' = "done"
    /\ UNCHANGED <<project_keywords, year, prs, events, hashseed, pr_projects,
                   event_projects, projects, quarters, exc, run, first_projects, unit_in>>
    /\ UNCHANGED other_vars

NextCall ==
    \/ CallDetectProjectName
    \/ CallGetIconClass
    \/ CallExtractKeywords
    \/ CallGenerateDescription

SpecCall == InitCall /\ [][NextCall]_vars

\* the method has been called and has returned unit_out
Called(method) == pc = "done" /\ unit_in.method = method

(***************************************************************************)
(* analyze_projects on records chosen for the way each gets its name: from *)
(* the title, from the second text field, from a keyword, or not at all.   *)
(***************************************************************************)
\* a PR whose title names no project and whose body does
BodyNamedPR ==
    [title |-> "bump deps", body |-> "Helm integration",
     created_at |-> "2025-05-06T12:00:00Z", url |-> "https://github.com/test/pr/5"]

\* a PR whose title and body are null in the API's answer
UntitledPR ==
    [title |-> None, body |-> None,
     created_at |-> "2025-03-01T08:00:00Z", url |-> "https://github.com/test/pr/6"]

\* an event with a keyword of the largest configuration and no name
KeywordEvent == [title |-> "cost sync", date |-> "2025-04-02"]

\* an event whose description names a project and whose title does not
DescribedEvent ==
    [title |-> "weekly sync", description |-> "Apollo project review",
     date |-> "2025-09-09"]

GroupedPRs == {ScenarioPR, BodyNamedPR, TwoCategoryPR, UndatedPR, UntitledPR}

GroupedEvents == {ScenarioEvent, GenericEvent, KeywordEvent, DescribedEvent}

InitGroup ==
    /\ NothingElse
    /\ Configured
    /\ year = LabelYear
    /\ prs \in ListsUpTo(GroupedPRs, MaxGrouped)
    /\ events \in ListsUpTo(GroupedEvents, MaxGrouped)
    /\ pc = "analyze_prs"
    /\ run = 1
    /\ first_projects = <<>>
    /\ NoCallYet
    /\ NoUnitCall

NextGroup ==
    \/ AnalyzePrs
    \/ AnalyzeCalendarEvents
    \/ MergeProjects

SpecGroup == InitGroup /\ [][NextGroup]_vars

(***************************************************************************)
(* The pipeline with its objects followed by address.  A Python name holds *)
(* a reference: the lists and dicts the four methods are handed, and those *)
(* they build, are objects of heap, and a list or dict holds the addresses *)
(* of its elements.  An object is a record (a PR or an event, with its     *)
(* value), a list (items), a dict (entries [name, at]) or a project (its   *)
(* fields, and the addresses of its lists 'prs' and 'events').             *)
(***************************************************************************)
\* the records a list holds, PRs or events, in one call
MaxByRef == 2

\* the address of the next object made
NewAddress(h) == Len(h) + 1

\* a new list, a new dict
NewList(items) == [kind |-> "list", items |-> items]

NewDict(entries) == [kind |-> "dict", entries |-> entries]

\* list.append(item) on the list at address list
ListAppend(h, list, item) == [h EXCEPT ![list].items = Append(@, item)]

\* name in d
HasKey(h, d, name) == \E i \in 1..Len(h[d].entries) : h[d].entries[i].name = name

\* d[name]
At(h, d, name) ==
    h[d].entries[CHOOSE i \in 1..Len(h[d].entries) : h[d].entries[i].name = name].at

\* d[name] = the object at address at, for a name d has not
SetItem(h, d, name, at) ==
    [h EXCEPT ![d].entries = Append(@, [name |-> name, at |-> at])]

\* defaultdict(list): projects[name].append(record)
FileByRef(h, d, name, record) ==
    IF HasKey(h, d, name) THEN ListAppend(h, At(h, d, name), record)
    ELSE SetItem(Append(h, NewList(<<record>>)), d, name, NewAddress(h))

RECURSIVE AnalyzePrsByRefFrom(_, _, _)
\* the loop of analyze_prs over the PRs still to visit, projects at address d
AnalyzePrsByRefFrom(rest, h, d) ==
    IF rest = <<>> THEN h
    ELSE AnalyzePrsByRefFrom(Tail(rest),
             FileByRef(h, d, OrOtherWork(RecordName(h[Head(rest)].value, "body")),
                       Head(rest)),
             d)

\* the end of the loop body of analyze_calendar_events: continue, or append
FileEventByRef(h, d, name, event) ==
    IF name = None THEN h ELSE FileByRef(h, d, name, event)

RECURSIVE AnalyzeEventsByRefFrom(_, _, _)
\* the loop of analyze_calendar_events over the events still to visit
AnalyzeEventsByRefFrom(rest, h, d) ==
    IF rest = <<>> THEN h
    ELSE AnalyzeEventsByRefFrom(Tail(rest),
             FileEventByRef(h, d, RecordName(h[Head(rest)].value, "description"),
                            Head(rest)),
             d)

\* return dict(projects): a new dict of the same lists, the last object made
DictOf(h, d) == Append(h, NewDict(h[d].entries))

\* analyze_prs(prs): the heap when it returns, its result the last object
analyze_prs_by_ref(h, prs_) ==
    DictOf(AnalyzePrsByRefFrom(h[prs_].items, Append(h, NewDict(<<>>)), NewAddress(h)),
           NewAddress(h))

\* analyze_calendar_events(events)
analyze_calendar_events_by_ref(h, events_) ==
    DictOf(AnalyzeEventsByRefFrom(h[events_].items, Append(h, NewDict(<<>>)),
                                  NewAddress(h)),
           NewAddress(h))

\* the records of the list at address list
Records(h, list) == [i \in 1..Len(h[list].items) |-> h[h[list].items[i]].value]

\* d.setdefault(name, []): the list of the name, which d is given if it has
\* none
SetDefault(h, d, name) ==
    IF HasKey(h, d, name) THEN [heap |-> h, at |-> At(h, d, name)]
    ELSE [heap |-> SetItem(Append(h, NewList(<<>>)), d, name, NewAddress(h)),
          at |-> NewAddress(h)]

\* d.get(name, []): the list of the name, or a new empty list
GetOrEmpty(h, d, name) ==
    IF HasKey(h, d, name) THEN [heap |-> h, at |-> At(h, d, name)]
    ELSE [heap |-> Append(h, NewList(<<>>)), at |-> NewAddress(h)]

\* projects[project_name] = {...}: the new dict holds the lists prs and
\* events themselves, not copies
StoreProject(h, merged, name, fields, prs_, events_) ==
    SetItem(Append(h, [kind |-> "project", fields |-> fields,
                       prs |-> prs_, events |-> events_]),
            merged, name, NewAddress(h))

RECURSIVE MergeByRefFrom(_, _, _, _, _)
\* one turn of the loop, the body having ended as one
MergeByRefTurn(one, names, h, got_prs, got_events, pr_projects_, event_projects_, merged) ==
    IF one.exc # "" THEN [exc |-> one.exc, heap |-> h]
    ELSE MergeByRefFrom(Tail(names),
             IF one.skip THEN h
             ELSE StoreProject(h, merged, Head(names), one.value, got_prs, got_events),
             pr_projects_, event_projects_, merged)

\* the loop body from events = event_projects.get(project_name, []) on
MergeByRefEvents(names, got_prs, got_events, pr_projects_, event_projects_, merged) ==
    MergeByRefTurn(MergeBody(Head(names), Records(got_events.heap, got_prs.at),
                             Records(got_events.heap, got_events.at)),
                   names, got_events.heap, got_prs.at, got_events.at,
                   pr_projects_, event_projects_, merged)

\* the loop body from prs = pr_projects.get(project_name, []) on
MergeByRefPrs(names, got_prs, pr_projects_, event_projects_, merged) ==
    MergeByRefEvents(names, got_prs,
                     GetOrEmpty(got_prs.heap, event_projects_, Head(names)),
                     pr_projects_, event_projects_, merged)

\* the loop of merge_projects over the names still to visit
MergeByRefFrom(names, h, pr_projects_, event_projects_, merged) ==
    IF names = <<>> THEN [exc |-> "", heap |-> h]
    ELSE MergeByRefPrs(names, GetOrEmpty(h, pr_projects_, Head(names)),
                       pr_projects_, event_projects_, merged)

\* merge_projects(pr_projects, event_projects): projects = {} is the first
\* object it makes
merge_projects_by_ref(h, pr_projects_, event_projects_, all_project_names) ==
    MergeByRefFrom(all_project_names, Append(h, NewDict(<<>>)),
                   pr_projects_, event_projects_, NewAddress(h))

\* the names of the keys of the dict at address d
NamesAt(h, d) == {h[d].entries[i].name : i \in 1..Len(h[d].entries)}

\* the projects of the dict at address d, in its order
ValuesAt(h, d) == [i \in 1..Len(h[d].entries) |-> h[d].entries[i].at]

RECURSIVE OrganizeByRefFrom(_, _, _)
\* the loop of organize_by_quarter over the projects still to visit, the
\* dict quarters at address d
OrganizeByRefFrom(rest, h, d) ==
    IF rest = <<>> THEN h
    ELSE OrganizeByRefFrom(Tail(rest),
             ListAppend(h,
                        At(h, d, BucketKey(Get(h[Head(rest)].fields, "quarter", None),
                                           Get(h[Head(rest)].fields, "start_date", None),
                                           [q \in QuarterKeys |-> <<>>])),
                        Head(rest)),
             d)

\* the projects of a list with their sort keys
Keyed(h, items) ==
    [i \in 1..Len(items) |-> [start_date |-> h[items[i]].fields.start_date, at |-> items[i]]]

\* quarters[quarter].sort(...): the list is sorted in place
SortInPlace(h, list, sorted) ==
    [h EXCEPT ![list].items = [i \in 1..Len(sorted) |-> sorted[i].at]]

RECURSIVE SortBucketsByRef(_, _, _)
\* one turn of the loop that sorts each bucket
SortTurn(sorted, labels, h, d) ==
    IF sorted.exc # "" THEN [exc |-> sorted.exc, heap |-> h]
    ELSE SortBucketsByRef(Tail(labels), SortInPlace(h, At(h, d, Head(labels)), sorted.value), d)

\* the loop that sorts each bucket, over the labels still to visit
SortBucketsByRef(labels, h, d) ==
    IF labels = <<>> THEN [exc |-> "", heap |-> h]
    ELSE SortTurn(list_sort(Keyed(h, h[At(h, d, Head(labels))].items)), labels, h, d)

\* the four labels in the order of the dict quarters
Labels == [n \in 1..4 |-> QuarterLabel(n, LabelYear)]

\* quarters = {...}: four new lists and the dict that holds them, made last
NewQuarters(h) ==
    Append(h \o [n \in 1..4 |-> NewList(<<>>)],
           NewDict([n \in 1..4 |-> [name |-> Labels[n], at |-> Len(h) + n]]))

\* organize_by_quarter(projects); quarters is at the address returned in at
organize_by_quarter_by_ref(h, projects_) ==
    [at |-> Len(h) + 5] @@
    SortBucketsByRef(Labels,
                     OrganizeByRefFrom(ValuesAt(h, projects_), NewQuarters(h), Len(h) + 5),
                     Len(h) + 5)

\* a PR of a second project, opened in the quarter of the first and before it
EarlierPR ==
    [title |-> "Helm Drift Detection", body |-> "",
     created_at |-> "2025-01-05T10:00:00Z", url |-> "https://github.com/test/pr/3"]

ByRefPRs == {ScenarioPR, EarlierPR, UndatedPR}

ByRefEvents == {ScenarioEvent, GenericEvent, DescribedEvent}

\* the objects of a member's data: the records, then the two lists
ObjectsOf(prs_, events_) ==
    [i \in 1..Len(prs_) |-> [kind |-> "record", value |-> prs_[i]]]
    \o [i \in 1..Len(events_) |-> [kind |-> "record", value |-> events_[i]]]
    \o <<NewList([i \in 1..Len(prs_) |-> i]),
         NewList([i \in 1..Len(events_) |-> Len(prs_) + i])>>

\* a fresh process about to call analyze_projects on a member's data, under
\* a configuration of one category; no name but prs and events is bound
\* (address 0)
InitByRef ==
    /\ NoCollecting
    /\ Configured /\ Len(hashseed) = 1
    /\ year = LabelYear
    /\ prs = <<>> /\ events = <<>>
    /\ \E prs_ \in ListsUpTo(ByRefPRs, MaxByRef), events_ \in ListsUpTo(ByRefEvents, MaxByRef) :
          /\ heap = ObjectsOf(prs_, events_)
          /\ ref = [prs |-> Len(prs_) + Len(events_) + 1,
                    events |-> Len(prs_) + Len(events_) + 2,
                    pr_projects |-> 0, event_projects |-> 0,
                    projects |-> 0, quarters |-> 0]
    /\ pc = "analyze_prs"
    /\ run = 1
    /\ first_projects = <<>>
    /\ NoCallYet
    /\ NoUnitCall

\* what the pipeline by address leaves alone
by_value_vars ==
    <<project_keywords, year, prs, events, hashseed, pr_projects, event_projects,
      projects, quarters, run, first_projects, unit_in, unit_out>>

\* pr_projects = analyzer.analyze_prs(prs)
AnalyzePrsByRef ==
    /\ pc = "analyze_prs" /\ exc = ""
    /\ heap' = analyze_prs_by_ref(heap, ref.prs)
    /\ ref' = [ref EXCEPT !.pr_projects = Len(heap')]
    /\ pc' = "analyze_calendar_events"
    /\ UNCHANGED <<by_value_vars, exc, collecting_vars>>

\* event_projects = analyzer.analyze_calendar_events(events)
AnalyzeCalendarEventsByRef ==
    /\ pc = "analyze_calendar_events" /\ exc = ""
    /\ heap' = analyze_calendar_events_by_ref(heap, ref.events)
    /\ ref' = [ref EXCEPT !.event_projects = Len(heap')]
    /\ pc' = "merge_projects"
    /\ UNCHANGED <<by_value_vars, exc, collecting_vars>>

\* projects = analyzer.merge_projects(pr_projects, event_projects)
MergeProjectsByRef ==
    /\ pc = "merge_projects" /\ exc = ""
    /\ \E all_project_names \in Orders(NamesAt(heap, ref.pr_projects)
                                      \cup NamesAt(heap, ref.event_projects)) :
          \E r \in {merge_projects_by_ref(heap, ref.pr_projects, ref.event_projects,
                                          all_project_names)} :
              /\ heap' = r.heap
              /\ ref' = IF Returned(r) THEN [ref EXCEPT !.projects = Len(heap) + 1] ELSE ref
              /\ pc' = IF Returned(r) THEN "organize_by_quarter" ELSE pc
              /\ exc' = r.exc
    /\ UNCHANGED <<by_value_vars, collecting_vars>>

\* quarters = analyzer.organize_by_quarter(projects)
OrganizeByQuarterByRef ==
    /\ pc = "organize_by_quarter" /\ exc = ""
    /\ \E r \in {organize_by_quarter_by_ref(heap, ref.projects)} :
          /\ heap' = r.heap
          /\ ref' = IF Returned(r) THEN [ref EXCEPT !.quarters = r.at] ELSE ref
          /\ pc' = IF Returned(r) THEN "done" ELSE pc
          /\ exc' = r.exc
    /\ UNCHANGED <<by_value_vars, collecting_vars>>

NextByRef ==
    \/ AnalyzePrsByRef
    \/ AnalyzeCalendarEventsByRef
    \/ MergeProjectsByRef
    \/ OrganizeByQuarterByRef

SpecByRef == InitByRef /\ [][NextByRef]_vars

(***************************************************************************)
(* GitHubCollector._make_request: one call, followed turn by turn of its   *)
(* loop.  A turn calls session.get once; the server's answer is any status *)
(* with any body; the clock counts the seconds the call has slept, and the *)
(* reset time of an answer is before, at or after the clock's second.      *)
(* exchanges is what a session in the place of requests.Session would have *)
(* recorded: the second of each call of get, its params and its answer.    *)
(***************************************************************************)
\* the last page the server answers in full
MaxPages == 3
\* the rate-limited answers the server gives that are waited for
MaxWaits == 1

per_page == 100

\* the items of the answer to the k-th call of get, n of them
ItemsOf(k, n) == [i \in 1..n |-> [request |-> k, index |-> i]]

\* the bodies response.json() returns: a list, a dict with the key 'items',
\* a dict without it, and a value that is neither; a body is written as its
\* type, the keys it has if it is a dict, and the items it holds as a list
\* or under the key 'items'
ListBody(items) == [type |-> "list", keys |-> {}, items |-> items]

SearchBody(items) == [type |-> "dict", keys |-> {"total_count", "items"}, items |-> items]

MessageBody == [type |-> "dict", keys |-> {"message"}, items |-> <<>>]

NullBody == [type |-> "NoneType", keys |-> {}, items |-> <<>>]

\* the sizes of the pages the server answers with
PageSizes == {0, 1, per_page - 1, per_page, per_page + 1}

\* the bodies of the answer to the k-th call
Bodies(k) ==
    {ListBody(ItemsOf(k, n)) : n \in PageSizes}
    \cup {SearchBody(ItemsOf(k, n)) : n \in {0, 1, per_page}}
    \cup {MessageBody, NullBody}

\* the headers of an answer: X-RateLimit-Reset is missing, or holds the
\* second of the reset in digits
Headers(clock) ==
    {<<>>} \cup {[reset |-> IntToStr(t)] : t \in {clock - 1, clock, clock + 1}}

\* the bodies of an answer that reports an error: a message, or a list all
\* the same
ErrorBodies(k) == {MessageBody, ListBody(ItemsOf(k, 1))}

\* the answers the server can give to the k-th call at time clock
Responses(k, clock) ==
    {[status_code |-> 200, headers |-> <<>>, body |-> b] : b \in Bodies(k)}
    \cup {[status_code |-> 403, headers |-> h, body |-> b] :
              h \in Headers(clock), b \in ErrorBodies(k)}
    \cup {[status_code |-> 404, headers |-> <<>>, body |-> MessageBody]}

\* params with 'page' set by the first turn only: a dict that has the key
\* is sent as it is
PageSetOnce(params_, page_) ==
    IF "page" \in DOMAIN params_ THEN params_
    ELSE [k \in DOMAIN params_ \cup {"page", "per_page"} |->
             IF k = "page" THEN page_ ELSE IF k = "per_page" THEN per_page ELSE params_[k]]

\* params with the page on the turn's first lines; params None, or a dict
\* with no key, is replaced by a new dict
WithPage(params_, page_) ==
    IF DOMAIN params_ # {}
    THEN [k \in DOMAIN params_ \cup {"page", "per_page"} |->
             IF k = "page" THEN page_ ELSE IF k = "per_page" THEN per_page ELSE params_[k]]
    ELSE [page |-> page_, per_page |-> per_page]

\* int(response.headers.get('X-RateLimit-Reset', time.time() + 60))
reset_time(response, clock) ==
    IF "reset" \in DOMAIN response.headers THEN ParseInt(response.headers.reset)
    ELSE clock + 60

\* max(0, reset_time - int(time.time()))
wait_time(response, clock) ==
    IF reset_time(response, clock) - clock > 0 THEN reset_time(response, clock) - clock
    ELSE 0

\* the turn sleeps and continues whenever the status is 403, the reset time
\* being past or not
WaitsOnAny403(response, clock) == response.status_code = 403

\* the turn sleeps and continues
Waits(response, clock) == response.status_code = 403 /\ wait_time(response, clock) > 0

\* response.raise_for_status() raises
StatusRaises(response) == response.status_code >= 400

\* the lines from data = response.json() to the else branch
ItemsIn(data) ==
    IF data.type = "dict" /\ "items" \in data.keys THEN data.items
    ELSE IF data.type = "list" THEN data.items
    ELSE <<>>

\* the call of get and its answer, added to what the session recorded
Recorded(response) ==
    Append(exchanges, [at |-> now, params |-> WithPage(params, page),
                       response |-> response])

\* the callers of _make_request: get_prs_authored and get_commits hand over
\* a dict, a call without params hands over none
ParamsGiven == {<<>>, [q |-> "author:octocat type:pr", sort |-> "created"]}

InitRequest ==
    /\ NoObjects /\ NoCache
    /\ project_keywords = <<>> /\ hashseed = <<>> /\ year = LabelYear
    /\ prs = <<>> /\ events = <<>>
    /\ pc = "collect" /\ run = 1 /\ first_projects = <<>>
    /\ NoCallYet
    /\ NoUnitCall
    /\ req_pc = "get"
    /\ params \in ParamsGiven
    /\ page = 1
    /\ all_items = <<>>
    /\ now = 1000
    /\ exchanges = <<>>

\* what a call of _make_request leaves alone
not_request_vars ==
    <<project_keywords, year, prs, events, hashseed, pc, pr_projects, event_projects,
      projects, quarters, exc, run, first_projects, unit_in, unit_out, object_vars,
      cache_vars>>

\* the rate-limited answers already waited for
Waited == Len(SelectSeq(exchanges, LAMBDA e : e.response.status_code = 403))

\* a turn that ends in the sleep of the 403 branch: the same page is asked
\* for again once the reset time has passed
RateLimited ==
    /\ req_pc = "get" /\ Waited < MaxWaits
    /\ \E response \in Responses(Len(exchanges) + 1, now) :
          /\ Waits(response, now)
          /\ exchanges' = Recorded(response)
          /\ now' = now + wait_time(response, now) + 1
    /\ params' = WithPage(params, page)
    /\ UNCHANGED <<req_pc, page, all_items, not_request_vars>>

\* a turn that ends in raise_for_status raising
Refused ==
    /\ req_pc = "get"
    /\ \E response \in Responses(Len(exchanges) + 1, now) :
          /\ ~Waits(response, now)
          /\ StatusRaises(response)
          /\ exchanges' = Recorded(response)
    /\ params' = WithPage(params, page)
    /\ req_pc' = "raised"
    /\ UNCHANGED <<page, all_items, now, not_request_vars>>

\* a turn that ends in the first break: the answer has no items
EmptyPage ==
    /\ req_pc = "get"
    /\ \E response \in Responses(Len(exchanges) + 1, now) :
          /\ ~Waits(response, now)
          /\ ~StatusRaises(response)
          /\ ItemsIn(response.body) = <<>>
          /\ exchanges' = Recorded(response)
    /\ params' = WithPage(params, page)
    /\ req_pc' = "returned"
    /\ UNCHANGED <<page, all_items, now, not_request_vars>>

\* a turn that ends in the second break: the page is not full
LastPage ==
    /\ req_pc = "get"
    /\ \E response \in Responses(Len(exchanges) + 1, now) :
          /\ ~Waits(response, now)
          /\ ~StatusRaises(response)
          /\ ItemsIn(response.body) # <<>>
          /\ Len(ItemsIn(response.body)) < per_page
          /\ exchanges' = Recorded(response)
          /\ all_items' = all_items \o ItemsIn(response.body)
    /\ params' = WithPage(params, page)
    /\ req_pc' = "returned"
    /\ UNCHANGED <<page, now, not_request_vars>>

\* a turn that ends in page += 1 and the sleep of half a second, which the
\* clock in whole seconds does not count
FullPage ==
    /\ req_pc = "get" /\ page < MaxPages
    /\ \E response \in Responses(Len(exchanges) + 1, now) :
          /\ ~Waits(response, now)
          /\ ~StatusRaises(response)
          /\ Len(ItemsIn(response.body)) >= per_page
          /\ exchanges' = Recorded(response)
          /\ all_items' = all_items \o ItemsIn(response.body)
    /\ params' = WithPage(params, page)
    /\ page' = page + 1
    /\ UNCHANGED <<req_pc, now, not_request_vars>>

NextRequest ==
    \/ RateLimited
    \/ Refused
    \/ EmptyPage
    \/ LastPage
    \/ FullPage

SpecRequest == InitRequest /\ [][NextRequest]_vars

(***************************************************************************)
(* collect_data.main: the loop over config['members'], which collects and  *)
(* analyses a member's data or reads both from the files of an earlier     *)
(* run, and the generation of the pages.  Each run is a process of its     *)
(* own; the files of data/raw are what one run leaves to the next.  A file *)
(* holds the JSON text json.dumps wrote, as the tree of its values.        *)
(***************************************************************************)
\* the members of the configuration
MaxMembers == 2

\* json.dumps of a str or of None
JsonScalar(v) == IF v = None THEN [t |-> "null"] ELSE [t |-> "string", v |-> v]

\* of an int
JsonNumber(n) == [t |-> "number", v |-> n]

\* of a list of str
JsonStrings(list) == [t |-> "array", v |-> [i \in DOMAIN list |-> JsonScalar(list[i])]]

\* of a dict of str and None: a PR, an event, a link
JsonRecord(r) == [t |-> "object", v |-> [k \in DOMAIN r |-> JsonScalar(r[k])]]

\* of a list of such dicts
JsonRecords(list) == [t |-> "array", v |-> [i \in DOMAIN list |-> JsonRecord(list[i])]]

\* of data['github']: no key, or three lists
JsonGithub(github_data) ==
    [t |-> "object", v |-> [k \in DOMAIN github_data |-> JsonRecords(github_data[k])]]

\* of data['calendar']: no key, or the events and their number
JsonCalendar(calendar_data) ==
    [t |-> "object",
     v |-> [k \in DOMAIN calendar_data |->
               IF k = "total_events" THEN JsonNumber(calendar_data[k])
               ELSE JsonRecords(calendar_data[k])]]

\* json.dumps(data, indent=2, default=str)
JsonData(data) ==
    [t |-> "object",
     v |-> [github |-> JsonGithub(data.github),
            slack |-> [t |-> "object", v |-> <<>>],
            calendar |-> JsonCalendar(data.calendar)]]

\* of one project
JsonProject(project) ==
    [t |-> "object",
     v |-> [k \in DOMAIN project |->
               IF k \in {"prs", "events", "github_links", "calendar_links"}
               THEN JsonRecords(project[k])
               ELSE IF k = "tags" THEN JsonStrings(project[k])
               ELSE JsonScalar(project[k])]]

\* json.dumps(projects, indent=2, default=str): the members of the object
\* in the order of the dict, each under the project's name
JsonProjects(projects_) ==
    [t |-> "dict",
     v |-> [i \in DOMAIN projects_ |->
               [key |-> projects_[i].name, value |-> JsonProject(projects_[i])]]]

RECURSIVE json_load(_)
\* json.load: the value of a JSON text
json_load(node) ==
    CASE node.t = "null" -> None
      [] node.t \in {"string", "number"} -> node.v
      [] node.t \in {"array", "object"} -> [k \in DOMAIN node.v |-> json_load(node.v[k])]
      [] node.t = "dict" -> [i \in DOMAIN node.v |-> json_load(node.v[i].value)]

\* member.get('github') or member['name'].lower().replace(' ', '_')
member_key(member) ==
    Or(Get(member, "github", None), str_replace(str_lower(member.name), " ", "_"))

data_file(member) == member_key(member) \o "_data.json"

projects_file(member) == member_key(member) \o "_projects.json"

\* data_file.exists() and projects_file.exists()
BothExist(member) == {data_file(member), projects_file(member)} \subseteq DOMAIN files

\* path.write_text(text)
Written(fs, path, text) ==
    [p \in DOMAIN fs \cup {path} |->
        IF p = path
        THEN [text |-> text, writes |-> IF path \in DOMAIN fs THEN fs[path].writes + 1 ELSE 1]
        ELSE fs[p]]

\* what the PR search and the calendar file of a member can hold
SearchedPRs == {ScenarioPR, UndatedPR}

ParsedEvents == {ScenarioEvent}

\* data['github'] after the GitHub block of collect_member_data: the
\* collector's result, or no key when the member has no user name or the
\* collector raised
GithubData(member) ==
    IF Truthy(Get(member, "github", None))
    THEN {<<>>} \cup {[prs_authored |-> found, prs_reviewed |-> <<>>, commits |-> <<>>] :
                         found \in ListsUpTo(SearchedPRs, 1)}
    ELSE {<<>>}

\* data['calendar'] after the calendar block
CalendarData(member) ==
    IF /\ "has_calendar" \in DOMAIN member /\ member.has_calendar
       /\ Truthy(Get(member, "calendar_file", None))
    THEN {<<>>} \cup {[total_events |-> Len(found), events |-> found] :
                         found \in ListsUpTo(ParsedEvents, 1)}
    ELSE {<<>>}

\* the results collect_member_data(member, config) can have; no member of
\* the model has a Slack address
MemberData(member) ==
    {[github |-> g, slack |-> <<>>, calendar |-> c] :
        g \in GithubData(member), c \in CalendarData(member)}

\* data.get('github', {}).get('prs_authored', [])
AuthoredPRs(data) == Get(data.github, "prs_authored", <<>>)

\* data.get('calendar', {}).get('events', [])
CalendarEventsOf(data) == Get(data.calendar, "events", <<>>)

\* a member with a GitHub user name and a calendar file, and one with
\* neither
Alice ==
    [name |-> "Alice", github |-> "alice", has_calendar |-> TRUE,
     calendar_file |-> "alice.ics"]

Bob == [name |-> "Bob Stone"]

\* the files an earlier run has left for a member: those of a member with
\* no record
LeftBehind(member) ==
    (data_file(member) :>
        [text |-> JsonData([github |-> <<>>, slack |-> <<>>, calendar |-> <<>>]),
         writes |-> 0])
    @@ (projects_file(member) :> [text |-> JsonProjects(<<>>), writes |-> 0])

\* the files of both members
AllLeftBehind == LeftBehind(Alice) @@ LeftBehind(Bob)

\* the first run of main starts; data/raw holds any of the files of earlier
\* runs
InitCache ==
    /\ NoObjects /\ NoRequest
    /\ Configured
    /\ year = LabelYear
    /\ prs = <<>> /\ events = <<>>
    /\ run = 1 /\ first_projects = <<>>
    /\ NoCallYet
    /\ NoUnitCall
    /\ pc = "members"
    /\ members \in {config \in ListsUpTo({Alice, Bob}, MaxMembers) : config # <<>>}
    /\ \E kept \in SUBSET DOMAIN AllLeftBehind : files = [p \in kept |-> AllLeftBehind[p]]
    /\ member_at = 1
    /\ all_members_data = <<>>
    /\ turns = <<>>
    /\ last_run = [completed |-> FALSE, data |-> <<>>]

\* what main leaves alone
not_cache_vars ==
    <<project_keywords, year, prs, events, pr_projects, event_projects, projects,
      quarters, first_projects, unit_in, unit_out, object_vars, request_vars>>

\* the turn of the loop for a member whose two files exist
UseCached ==
    /\ pc = "members" /\ exc = ""
    /\ member_at <= Len(members)
    /\ BothExist(members[member_at])
    /\ all_members_data' =
          Append(all_members_data,
                 [member |-> members[member_at],
                  data |-> json_load(files[data_file(members[member_at])].text),
                  projects |-> json_load(files[projects_file(members[member_at])].text)])
    /\ turns' = Append(turns, [run |-> run, member |-> members[member_at],
                               missing |-> FALSE, collected |-> FALSE, analysed |-> FALSE,
                               read |-> TRUE, wrote |-> {}])
    /\ member_at' = member_at + 1
    /\ UNCHANGED <<pc, exc, run, hashseed, members, files, last_run, not_cache_vars>>

\* the rest of the else branch, analyze_projects having ended as r
Saved(member, data, r) ==
    /\ exc' = r.exc
    /\ files' = IF Returned(r)
                THEN Written(Written(files, data_file(member), JsonData(data)),
                             projects_file(member), JsonProjects(r.value))
                ELSE files
    /\ all_members_data' =
          IF Returned(r)
          THEN Append(all_members_data,
                      [member |-> member, data |-> data, projects |-> r.value])
          ELSE all_members_data
    /\ turns' = Append(turns, [run |-> run, member |-> member,
                               missing |-> TRUE, collected |-> TRUE, analysed |-> TRUE,
                               read |-> FALSE,
                               wrote |-> IF Returned(r)
                                         THEN {data_file(member), projects_file(member)}
                                         ELSE {}])
    /\ member_at' = IF Returned(r) THEN member_at + 1 ELSE member_at

\* analyze_projects(member, data, config), the PRs and the events grouped
Analysed(member, data, pr_projects_, event_projects_) ==
    \E all_project_names \in Orders(Keys(pr_projects_) \cup Keys(event_projects_)) :
        \E r \in {merge_projects(pr_projects_, event_projects_, all_project_names)} :
            Saved(member, data, r)

\* the turn of the loop for a member one of whose files is missing
CollectFresh ==
    /\ pc = "members" /\ exc = ""
    /\ member_at <= Len(members)
    /\ ~BothExist(members[member_at])
    /\ \E data \in MemberData(members[member_at]) :
          Analysed(members[member_at], data, analyze_prs(AuthoredPRs(data)),
                   analyze_calendar_events(CalendarEventsOf(data)))
    /\ UNCHANGED <<pc, run, hashseed, members, last_run, not_cache_vars>>

\* the exception of the first member whose page organize_by_quarter fails
\* for, "" if there is none
FirstFailure(organized) ==
    IF \A i \in 1..Len(organized) : organized[i].exc = "" THEN ""
    ELSE organized[CHOOSE i \in 1..Len(organized) :
                       /\ organized[i].exc # ""
                       /\ \A j \in 1..(i - 1) : organized[j].exc = ""].exc

\* the loop is over: the pages are generated, each member's projects being
\* organized by quarter, and main returns
GeneratePages ==
    /\ pc = "members" /\ exc = ""
    /\ member_at > Len(members)
    /\ \E e \in {FirstFailure([i \in 1..Len(all_members_data) |->
                                  organize_by_quarter(all_members_data[i].projects)])} :
          /\ exc' = e
          /\ pc' = IF e = "" THEN "done" ELSE pc
    /\ UNCHANGED <<run, hashseed, cache_vars, not_cache_vars>>

\* the script is run again, whether the run before completed or not
RunAgain ==
    /\ pc = "done" \/ exc # ""
    /\ run < MaxRuns
    /\ run' = run + 1
    /\ hashseed' \in Orders(DOMAIN project_keywords)
    /\ pc' = "members"
    /\ exc' = ""
    /\ member_at' = 1
    /\ all_members_data' = <<>>
    /\ last_run' = [completed |-> pc = "done", data |-> all_members_data]
    /\ UNCHANGED <<members, files, turns, not_cache_vars>>

NextCache ==
    \/ UseCached
    \/ CollectFresh
    \/ GeneratePages
    \/ RunAgain

SpecCache == InitCache /\ [][NextCache]_vars

(***************************************************************************)
(* Where the pipeline stands.                                              *)
(***************************************************************************)
AnalyzePrsReturned == pc # "analyze_prs"
AnalyzeEventsReturned == pc \notin {"analyze_prs", "analyze_calendar_events"}
MergeReturned == pc \in {"organize_by_quarter", "done"}
MergeRaised == pc = "merge_projects" /\ exc # ""
OrganizeReturned == pc = "done"
OrganizeRaised == pc = "organize_by_quarter" /\ exc # ""

\* the inputs are the first PR and the first event of the test data
IsScenario ==
    /\ project_keywords = [security |-> <<"rbac">>]
    /\ prs = <<ScenarioPR>>
    /\ events = <<ScenarioEvent>>

(***************************************************************************)
(* C1: on the PR 'RBAC V2 Implementation' and the event 'RBAC kickoff      *)
(* meeting' of the test data, under the configuration {security: [rbac]},  *)
(* the three calls complete and merge_projects yields one project, named   *)
(* RBAC, of category security and quarter Q1 2025, whose prs hold the PR   *)
(* and whose events hold the event.                                        *)
(***************************************************************************)
ScenarioMerged ==
    IsScenario /\ (MergeReturned \/ MergeRaised) =>
        /\ MergeReturned
        /\ Len(projects) = 1
        /\ projects[1].name = "RBAC"
        /\ projects[1].category = "security"
        /\ projects[1].quarter = "Q1 2025"
        /\ ScenarioPR \in Range(projects[1].prs)
        /\ ScenarioEvent \in Range(projects[1].events)

(***************************************************************************)
(* C2: for all input sequences the pipeline never raises; it returns a     *)
(* project mapping, empty when both inputs are empty, and four quarter     *)
(* buckets.                                                                *)
(***************************************************************************)
PipelineNeverRaises ==
    /\ exc = ""
    /\ (MergeReturned /\ prs = <<>> /\ events = <<>> => projects = <<>>)
    /\ (OrganizeReturned => Cardinality(DOMAIN quarters) = 4)

\* the PR has a created_at, and fromisoformat accepts it
PrDateParses(pr) ==
    /\ Truthy(Get(pr, "created_at", None))
    /\ fromisoformat(str_replace(pr.created_at, "Z", "+00:00")).exc = ""

PrDateUnparseable(pr) == Truthy(Get(pr, "created_at", None)) /\ ~PrDateParses(pr)

EventDateUnparseable(event) == Truthy(Get(event, "date", None)) /\ ~EventDateParses(event)

\* some record handed to merge_projects has a timestamp that does not parse
SomeUnparseable ==
    \/ \E i \in 1..Len(pr_projects) :
          \E pr \in Range(pr_projects[i].items) : PrDateUnparseable(pr)
    \/ \E i \in 1..Len(event_projects) :
          \E event \in Range(event_projects[i].items) : EventDateUnparseable(event)

\* the datetimes of the records of project p whose timestamps parse
ParsedDates(p) ==
    {fromisoformat(str_replace(pr.created_at, "Z", "+00:00")).value :
        pr \in {pr \in Range(p.prs) : PrDateParses(pr)}}
    \cup {fromisoformat(event.date).value :
             event \in {event \in Range(p.events) : EventDateParses(event)}}

\* start_date and end_date of p are the least and the greatest of ParsedDates(p)
DatesFromParsed(p) ==
    IF ParsedDates(p) = {} THEN p.start_date = None /\ p.end_date = None
    ELSE /\ \E d \in ParsedDates(p) :
               /\ \A e \in ParsedDates(p) : NotAfter(d, e)
               /\ p.start_date = isoformat(d)
         /\ \E d \in ParsedDates(p) :
               /\ \A e \in ParsedDates(p) : NotAfter(e, d)
               /\ p.end_date = isoformat(d)

(***************************************************************************)
(* C3: in merge_projects a record whose timestamp does not parse never     *)
(* aborts the merge with the parse error, and the dates of each project    *)
(* come from the records of the project whose timestamps parse (None when  *)
(* there is none).                                                         *)
(***************************************************************************)
UnparseableIsSkipped ==
    SomeUnparseable /\ (MergeReturned \/ MergeRaised) =>
        /\ exc # "ValueError"
        /\ MergeReturned => \A i \in 1..Len(projects) : DatesFromParsed(projects[i])

(***************************************************************************)
(* C4: every project merge_projects returns has at least one contributing  *)
(* record, len(p.prs) + len(p.events) >= 1, also when a bucket maps a name *)
(* to an empty list.                                                       *)
(***************************************************************************)
EveryProjectHasARecord ==
    MergeReturned =>
        \A i \in 1..Len(projects) : Len(projects[i].prs) + Len(projects[i].events) >= 1

\* merge_projects has returned a project and has passed over a name that
\* both buckets map to no record
MergedPastAnEmptyName ==
    /\ MergeReturned
    /\ projects # <<>>
    /\ \E i \in 1..Len(pr_projects) :
          /\ pr_projects[i].items = <<>>
          /\ Items(event_projects, pr_projects[i].name) = <<>>
          /\ pr_projects[i].name \in Keys(event_projects)
          /\ \A j \in 1..Len(projects) : projects[j].name # pr_projects[i].name

\* the rules in priority order: the category, the keyword and the two
\* substrings of each
Rules ==
    <<[category |-> "ai", keyword |-> "ai", substrings |-> {"klaudia", "remediation"}],
      [category |-> "security", keyword |-> "security", substrings |-> {"rbac", "auth"}],
      [category |-> "cost", keyword |-> "cost", substrings |-> {"finops", "hpa"}],
      [category |-> "perf", keyword |-> "performance", substrings |-> {"perf", "optimize"}],
      [category |-> "infra", keyword |-> "infrastructure",
       substrings |-> {"infra", "deployment"}],
      [category |-> "team", keyword |-> "team", substrings |-> {"interview", "hiring"}]>>

\* the condition of rule i holds
RuleApplies(i, keywords, title) ==
    \/ Rules[i].keyword \in keywords
    \/ \E sub \in Rules[i].substrings : Contains(sub, str_lower(title))

\* the category of the first rule whose condition holds
FirstRuleCategory(keywords, title) ==
    IF \E i \in 1..Len(Rules) : RuleApplies(i, keywords, title)
    THEN Rules[SetMin({i \in 1..Len(Rules) : RuleApplies(i, keywords, title)})].category
    ELSE "feature"

(***************************************************************************)
(* C5: _categorize_project returns the category of the first rule, in the  *)
(* order ai, security, cost, perf, infra, team, whose keyword is in the    *)
(* keyword set or one of whose two substrings is in the lower-cased title, *)
(* and feature when no rule applies; keywords {security, ai} with a title  *)
(* containing remediation give ai; the result is one of the seven          *)
(* categories.                                                             *)
(***************************************************************************)
CategorizeIsACascade ==
    pc = "done" =>
        /\ unit_out = FirstRuleCategory(unit_in.keywords, unit_in.title)
        /\ unit_out \in {Rules[i].category : i \in 1..Len(Rules)} \cup {"feature"}
        /\ ({"security", "ai"} \subseteq unit_in.keywords
            /\ Contains("remediation", str_lower(unit_in.title)) => unit_out = "ai")

\* the call on keywords {security, ai} and a title with remediation in it
\* has returned ai
AiBeforeSecurity ==
    /\ pc = "done"
    /\ unit_in.keywords = {"security", "ai"}
    /\ Contains("remediation", str_lower(unit_in.title))
    /\ unit_out = "ai"

\* two projects agree on all but the order of their tags
SameProject(p, q) ==
    /\ p.category = q.category
    /\ p.start_date = q.start_date
    /\ p.end_date = q.end_date
    /\ p.quarter = q.quarter
    /\ p.description = q.description
    /\ p.prs = q.prs
    /\ p.events = q.events
    /\ Range(p.tags) = Range(q.tags)

\* two mappings have the same names and, name by name, the same project
SameMapping(a, b) ==
    /\ Keys(a) = Keys(b)
    /\ \A i \in 1..Len(a) : \A j \in 1..Len(b) :
          a[i].name = b[j].name => SameProject(a[i], b[j])

(***************************************************************************)
(* C6: two runs of analyze_prs, analyze_calendar_events and merge_projects *)
(* on the same inputs and the same configuration yield mappings with the   *)
(* same project names and, name by name, the same category, dates,         *)
(* quarter, description and record lists, and the same tags as sets.       *)
(***************************************************************************)
RunsAgree ==
    run > 1 /\ (MergeReturned \/ MergeRaised) =>
        MergeReturned /\ SameMapping(first_projects, projects)

\* the places of project p in the buckets
Places(p) ==
    {<<q, k>> \in (DOMAIN quarters) \X (1..Len(projects)) :
        k <= Len(quarters[q]) /\ quarters[q][k] = p}

(***************************************************************************)
(* C7: organize_by_quarter returns a result with exactly four keys, in     *)
(* which every project of its input is in exactly one bucket, exactly      *)
(* once.                                                                   *)
(***************************************************************************)
EveryProjectInOneBucket ==
    OrganizeReturned \/ OrganizeRaised =>
        /\ OrganizeReturned
        /\ Cardinality(DOMAIN quarters) = 4
        /\ \A i \in 1..Len(projects) : Cardinality(Places(projects[i])) = 1
        /\ \A q \in DOMAIN quarters : Len(quarters[q]) <= Len(projects)

\* the start date of p, None counting as the empty string
StartOrEmpty(p) == IF p.start_date = None THEN "" ELSE p.start_date

(***************************************************************************)
(* C8: organize_by_quarter returns buckets in ascending start_date order,  *)
(* a start_date of None counting as the empty string, so that undated      *)
(* projects come before dated ones.                                        *)
(***************************************************************************)
BucketsSortedByStart ==
    OrganizeReturned \/ OrganizeRaised =>
        /\ OrganizeReturned
        /\ \A q \in DOMAIN quarters : \A i, j \in 1..Len(quarters[q]) :
              i < j => ~StrLess(StartOrEmpty(quarters[q][j]), StartOrEmpty(quarters[q][i]))

(***************************************************************************)
(* C9: for the target year Y handed to the page generator the keys of the  *)
(* buckets are Q1 Y, Q2 Y, Q3 Y and Q4 Y, and a project whose quarter is   *)
(* Qn Y is in the bucket Qn Y.                                             *)
(***************************************************************************)
LabelsFollowTargetYear ==
    OrganizeReturned =>
        /\ DOMAIN quarters = {QuarterLabel(n, year) : n \in 1..4}
        /\ \A i \in 1..Len(projects) : \A n \in 1..4 :
              projects[i].quarter = QuarterLabel(n, year) =>
                  projects[i] \in Range(quarters[QuarterLabel(n, year)])

\* items is the sub-list of input made of the records that occur in items
InInputOrder(items, input) == items = SelectSeq(input, LAMBDA r : r \in Range(items))

\* no two buckets share a name or a record
Disjoint(buckets) ==
    \A i, j \in 1..Len(buckets) :
        i # j => /\ buckets[i].name # buckets[j].name
                 /\ Range(buckets[i].items) \cap Range(buckets[j].items) = {}

(***************************************************************************)
(* C10: the buckets analyze_prs returns partition its input: no bucket is  *)
(* empty, every PR of the input is in exactly one bucket, as often as in   *)
(* the input, and each bucket lists its PRs in input order; each bucket of *)
(* analyze_calendar_events lists the events it keeps in input order.       *)
(***************************************************************************)
BucketsPartitionInput ==
    /\ AnalyzePrsReturned =>
          /\ \A i \in 1..Len(pr_projects) :
                /\ pr_projects[i].items # <<>>
                /\ InInputOrder(pr_projects[i].items, prs)
          /\ Disjoint(pr_projects)
          /\ UNION {Range(pr_projects[i].items) : i \in 1..Len(pr_projects)} = Range(prs)
    /\ AnalyzeEventsReturned =>
          /\ \A i \in 1..Len(event_projects) :
                /\ event_projects[i].items # <<>>
                /\ InInputOrder(event_projects[i].items, events)
          /\ Disjoint(event_projects)

\* both calls have returned, one bucket holds two different PRs, and an
\* event was kept
TwoPrsInOneBucket ==
    /\ AnalyzeEventsReturned
    /\ event_projects # <<>>
    /\ Len(pr_projects) >= 1
    /\ \E i \in 1..Len(pr_projects) :
          /\ Len(pr_projects[i].items) = 2
          /\ pr_projects[i].items[1] # pr_projects[i].items[2]

\* the names a record may be filed under, given the name detected in its
\* title, the name detected in its second text field and the keywords of
\* the two fields together: no name when there is neither name nor keyword
ResolvedNames(from_title, from_second, keywords) ==
    IF Truthy(from_title) THEN {from_title}
    ELSE IF Truthy(from_second) THEN {from_second}
    ELSE {str_title(k) \o " Initiative" : k \in keywords}

NamesOf(record, second) ==
    ResolvedNames(_detect_project_name(Get(record, "title", "")),
                  _detect_project_name(Get(record, second, "")),
                  _extract_keywords(Str(Get(record, "title", "")) \o " "
                                    \o Str(Get(record, second, ""))))

\* the names of the buckets that hold the record
BucketsOf(record, buckets) ==
    {buckets[i].name : i \in {k \in 1..Len(buckets) : record \in Range(buckets[k].items)}}

\* the record is in a bucket, and only in buckets named by one of names
FiledUnder(record, buckets, names) ==
    BucketsOf(record, buckets) # {} /\ BucketsOf(record, buckets) \subseteq names

\* a PR is filed under one of names, under Other Work when names is empty
PrFiled(pr, names) ==
    FiledUnder(pr, pr_projects, IF names = {} THEN {"Other Work"} ELSE names)

\* an event is filed under one of names, and nowhere when names is empty
EventFiled(event, names) ==
    IF names = {} THEN BucketsOf(event, event_projects) = {}
    ELSE FiledUnder(event, event_projects, names)

(***************************************************************************)
(* C11: a record is filed under the name detected in its title; failing    *)
(* that, under the name detected in its body or description; failing that, *)
(* when its combined text has keywords, under "<K> Initiative" for one of  *)
(* those keyword categories K, title-cased; failing that, a PR is filed    *)
(* under "Other Work" and an event is in no bucket.  An event is absent    *)
(* from the result exactly when it has neither a name nor a keyword.       *)
(***************************************************************************)
NamesResolvedInOrder ==
    /\ AnalyzePrsReturned =>
          \A i \in 1..Len(prs) : PrFiled(prs[i], NamesOf(prs[i], "body"))
    /\ AnalyzeEventsReturned =>
          \A i \in 1..Len(events) : EventFiled(events[i], NamesOf(events[i], "description"))

\* both calls have returned: the PR was named after its body, its title
\* naming no project, and the event, with no name and no keyword, was dropped
NamedAfterBody ==
    /\ AnalyzeEventsReturned
    /\ prs = <<BodyNamedPR>>
    /\ Keys(pr_projects) = {"Helm"}
    /\ events = <<GenericEvent>>
    /\ event_projects = <<>>

\* the patterns that match s, and those whose match captures a name of
\* more than two characters
MatchingPatterns(s) == {p \in 1..4 : PatternMatches(p, s) # {}}

NamingPatterns(s) ==
    {p \in MatchingPatterns(s) : Len(Group1(s, PatternMatches(p, s))) > 2}

\* what the first of the patterns ps gives for s: its group when longer
\* than two characters, and no name otherwise
FirstOf(s, ps) ==
    IF Len(Group1(s, PatternMatches(SetMin(ps), s))) > 2
    THEN Group1(s, PatternMatches(SetMin(ps), s))
    ELSE None

\* the result of the capitalized-phrase scan
Fallback(s) == FromPhrases(FindAllFrom(s, 1))

(***************************************************************************)
(* C12, as claimed: the first pattern that matches the text decides the    *)
(* result of _detect_project_name, which is its first group, trimmed, if   *)
(* longer than two characters; the later patterns and the capitalized-     *)
(* phrase scan are consulted only if no pattern before them matched.       *)
(***************************************************************************)
FirstMatchDecides ==
    Called("_detect_project_name") /\ Truthy(unit_in.text) =>
        unit_out = IF MatchingPatterns(unit_in.text) # {}
                   THEN FirstOf(unit_in.text, MatchingPatterns(unit_in.text))
                   ELSE Fallback(unit_in.text)

(***************************************************************************)
(* C12, amended: the first pattern whose match captures a group longer     *)
(* than two characters, once trimmed, decides the result, which is that    *)
(* group; a pattern that matches with a shorter group is passed over like  *)
(* one that does not match, and the capitalized-phrase scan is consulted   *)
(* only if no pattern gave a name.  An empty or absent text gives None.    *)
(***************************************************************************)
FirstNamingMatchDecides ==
    Called("_detect_project_name") =>
        unit_out = IF ~Truthy(unit_in.text) THEN None
                   ELSE IF NamingPatterns(unit_in.text) # {}
                   THEN FirstOf(unit_in.text, NamingPatterns(unit_in.text))
                   ELSE Fallback(unit_in.text)

\* the first pattern matched with the group AI, and the third pattern
\* named the project
ShortGroupPassedOver ==
    /\ Called("_detect_project_name")
    /\ unit_in.text = "AI v2 Helm project"
    /\ 1 \in MatchingPatterns(unit_in.text)
    /\ unit_out = "Helm"

\* start_date is not after end_date, both read back from their ISO form
StartNotAfterEnd(p) ==
    p.start_date # None =>
        NotAfter(fromisoformat(p.start_date).value, fromisoformat(p.end_date).value)

(***************************************************************************)
(* C13: merge_projects gives every project of its buckets, also one that   *)
(* has both PRs and events, a start_date that is the least and an end_date *)
(* that is the greatest of the timestamps of its PRs and events that       *)
(* parse, taken together, with start_date <= end_date; both are None       *)
(* exactly when no record of the project has a timestamp that parses.      *)
(***************************************************************************)
DatesSpanAllRecords ==
    MergeReturned \/ MergeRaised =>
        /\ MergeReturned
        /\ \A i \in 1..Len(projects) :
              /\ DatesFromParsed(projects[i])
              /\ StartNotAfterEnd(projects[i])
              /\ (projects[i].start_date = None) = (ParsedDates(projects[i]) = {})

\* the label of the quarter of an ISO timestamp, read off its year and month
LabelOf(iso) ==
    "Q" \o IntToStr((ParseInt(SubSeq(iso, 6, 7)) - 1) \div 3 + 1) \o " " \o SubSeq(iso, 1, 4)

(***************************************************************************)
(* C14: the quarter of a project is derived from its start date only: it   *)
(* is None when start_date is None, and otherwise "Q<n> <year>" for the    *)
(* year of the start date and n = floor((month - 1) / 3) + 1 of its month, *)
(* one of 1, 2, 3, 4; the end date has no part in it.                      *)
(***************************************************************************)
QuarterFromStartOnly ==
    MergeReturned =>
        \A i \in 1..Len(projects) :
            IF projects[i].start_date = None THEN projects[i].quarter = None
            ELSE /\ projects[i].quarter = LabelOf(projects[i].start_date)
                 /\ \E n \in 1..4 :
                       projects[i].quarter
                           = QuarterLabel(n, ParseInt(SubSeq(projects[i].start_date, 1, 4)))

\* a project that starts in one quarter and ends in a later one
EndsInALaterQuarter ==
    /\ MergeReturned
    /\ \E i \in 1..Len(projects) :
          /\ projects[i].start_date # None
          /\ projects[i].quarter = "Q1 2025"
          /\ LabelOf(projects[i].end_date) = "Q4 2025"

\* the text of a record: its title and its second text field
TextOf(record, second) ==
    Str(Get(record, "title", "")) \o " " \o Str(Get(record, second, ""))

\* the keywords of the representative text of project p: of its first PR
\* if it has a PR, of its first event otherwise
RepresentativeKeywords(p) ==
    IF p.prs # <<>> THEN _extract_keywords(TextOf(p.prs[1], "body"))
    ELSE _extract_keywords(TextOf(p.events[1], "description"))

\* tags lists each of the categories once, and the category alone when
\* there is no category to list
TagsAre(tags, categories, category) ==
    IF categories = {} THEN tags = <<category>>
    ELSE Range(tags) = categories /\ Len(tags) = Cardinality(categories)

Meaningful(prs_, events_) ==
    SelectSeq([i \in 1..Len(Take(prs_, 5)) |-> prs_[i].title], LAMBDA t : Len(t) > 20)
    \o SelectSeq([i \in 1..Len(Take(events_, 3)) |-> events_[i].title],
                 LAMBDA t : Len(t) > 15)

\* description is title, cut to 97 characters and "..." when title is
\* longer than 100
CutTo100(description, title) ==
    /\ Len(description) <= 100
    /\ Len(title) <= 100 => description = title
    /\ Len(title) > 100 =>
          /\ Len(description) = 100
          /\ SubSeq(description, 1, 97) = SubSeq(title, 1, 97)
          /\ SubSeq(description, 98, 100) = "..."

(***************************************************************************)
(* C16: a description taken from a title is at most 100 characters long:   *)
(* a title of at most 100 characters is the description unchanged, and a   *)
(* longer one is cut to its first 97 characters followed by "...", which   *)
(* makes exactly 100.  The title taken is the first PR title longer than   *)
(* 20 characters, or else the first event title longer than 15.            *)
(***************************************************************************)
DescriptionAtMost100 ==
    /\ Called("_generate_description")
    /\ unit_out.exc = ""
    /\ Meaningful(unit_in.prs, unit_in.events) # <<>>
    => CutTo100(unit_out.value, Meaningful(unit_in.prs, unit_in.events)[1])

\* the description made from a PR title of 150 characters has 100
LongTitleCut ==
    /\ Called("_generate_description")
    /\ unit_in.prs # <<>>
    /\ unit_in.prs[1].title # None
    /\ Len(unit_in.prs[1].title) = 150
    /\ unit_out.exc = ""
    /\ Len(unit_out.value) = 100

\* a and b are the same character, or the same letter in different case
SameLetter(a, b) ==
    \/ a = b
    \/ a \in Upper /\ b \in Lower /\ IndexIn(UpperLetters, a) = IndexIn(LowerLetters, b)
    \/ a \in Lower /\ b \in Upper /\ IndexIn(LowerLetters, a) = IndexIn(UpperLetters, b)

\* keyword occurs in text at some offset, case not counting
OccursIn(keyword, text) ==
    \E i \in 0..(Len(text) - Len(keyword)) :
        \A j \in 1..Len(keyword) : SameLetter(Ch(keyword, j), Ch(text, i + j))

(***************************************************************************)
(* C17: _extract_keywords returns exactly the categories of the            *)
(* configuration that have at least one keyword occurring in the text as a *)
(* substring, case not counting, whatever the place of the keyword in the  *)
(* category's list; it returns the empty set for an empty or absent text   *)
(* and for an empty configuration.                                         *)
(***************************************************************************)
KeywordsAreMatchingCategories ==
    Called("_extract_keywords") =>
        /\ unit_out = IF unit_in.text \in {None, ""} THEN {}
                      ELSE {category \in DOMAIN project_keywords :
                               \E keyword \in Range(project_keywords[category]) :
                                   OccursIn(keyword, unit_in.text)}
        /\ project_keywords = EmptyDict => unit_out = {}

\* a category was found by the second keyword of its list, written in
\* another case in the text
FoundBySecondKeyword ==
    /\ Called("_extract_keywords")
    /\ unit_in.text = "RBAC v2 kickoff"
    /\ "security" \in DOMAIN project_keywords
    /\ project_keywords.security = <<"auth", "rbac">>
    /\ unit_out = {"security"}

\* the lookup in a table of icons, with the icon of feature for a category
\* the table does not have
IconIn(table, category) ==
    IF category \in DOMAIN table THEN table[category] ELSE table.feature

(***************************************************************************)
(* C18, as claimed: the icon class of infra, feature, perf, security, ai,  *)
(* cost and team is icon-infra, icon-feature, icon-perf, icon-security,    *)
(* icon-ai, icon-cost and icon-feature-default, and that of any other      *)
(* category is the icon of feature.                                        *)
(***************************************************************************)
TeamIconIsFeatureDefault ==
    Called("_get_icon_class") =>
        unit_out = IconIn([infra |-> "icon-infra", feature |-> "icon-feature",
                           perf |-> "icon-perf", security |-> "icon-security",
                           ai |-> "icon-ai", cost |-> "icon-cost",
                           team |-> "icon-feature-default"], unit_in.category)

(***************************************************************************)
(* C18, amended: the icon class of each of the seven categories infra,     *)
(* feature, perf, security, ai, cost and team is "icon-" followed by the   *)
(* category, so that of team is icon-team, and that of any other category  *)
(* is the icon of feature, icon-feature.                                   *)
(***************************************************************************)
IconIsNamedAfterCategory ==
    Called("_get_icon_class") =>
        unit_out = IconIn([c \in {"infra", "feature", "perf", "security", "ai", "cost",
                                  "team"} |-> "icon-" \o c], unit_in.category)

\* the icon class of team was looked up
TeamIconLookedUp ==
    /\ Called("_get_icon_class")
    /\ unit_in.category = "team"
    /\ unit_out = "icon-team"

\* a text field that is missing, empty or null, read as the empty string
OrEmpty(record, field) ==
    IF Get(record, field, "") \in {None, ""} THEN "" ELSE record[field]

HasNoText(record, field) == OrEmpty(record, field) = ""

\* the names of a record whose missing, empty and null fields count as the
\* empty string
NamesWithoutMissing(record, second) ==
    ResolvedNames(_detect_project_name(OrEmpty(record, "title")),
                  _detect_project_name(OrEmpty(record, second)),
                  _extract_keywords(OrEmpty(record, "title") \o " "
                                    \o OrEmpty(record, second)))

\* some project has a PR and an event that both carry a timestamp that
\* parses: the buckets on which merge_projects fails whatever their texts
MixesDates ==
    \E i \in 1..Len(pr_projects) : \E j \in 1..Len(event_projects) :
        /\ pr_projects[i].name = event_projects[j].name
        /\ \E pr \in Range(pr_projects[i].items) : PrDateParses(pr)
        /\ \E event \in Range(event_projects[j].items) : EventDateParses(event)

(***************************************************************************)
(* C19: a text field that is missing, empty or null counts as the empty    *)
(* string and makes neither the grouping nor the merge fail: a record with *)
(* such a field is filed as its other field alone decides, so that a PR    *)
(* with nothing to go by is under "Other Work" and such an event is        *)
(* dropped, and merge_projects returns for the buckets of such records.    *)
(***************************************************************************)
MissingTextNeverFails ==
    /\ AnalyzePrsReturned =>
          \A i \in 1..Len(prs) :
              HasNoText(prs[i], "title") \/ HasNoText(prs[i], "body") =>
                  PrFiled(prs[i], NamesWithoutMissing(prs[i], "body"))
    /\ AnalyzeEventsReturned =>
          \A i \in 1..Len(events) :
              HasNoText(events[i], "description") =>
                  EventFiled(events[i], NamesWithoutMissing(events[i], "description"))
    /\ (MergeReturned \/ MergeRaised) /\ ~MixesDates => MergeReturned

\* the labels of the four quarters of year y
LabelsOf(y) == {QuarterLabel(n, y) : n \in 1..4}

\* the bucket of project p for the target year y: its quarter if that is a
\* quarter of y, else the quarter of its start date if that is in y, else
\* the first quarter of y
ResolvedBucket(p, y) ==
    IF p.quarter \in LabelsOf(y) THEN p.quarter
    ELSE IF p.start_date # None /\ fromisoformat(p.start_date).exc = ""
            /\ LabelOf(p.start_date) \in LabelsOf(y)
    THEN LabelOf(p.start_date)
    ELSE QuarterLabel(1, y)

\* the buckets that hold project p
BucketsHolding(p) == {q \in DOMAIN quarters : p \in Range(quarters[q])}

(***************************************************************************)
(* C20: organize_by_quarter puts a project in the bucket of its quarter    *)
(* when that is one of the four quarters of the target year, else in the   *)
(* bucket of the quarter of its start date when the date parses and is in  *)
(* the target year, else in the first quarter of the target year; so an    *)
(* undated project, and a project that starts in another year, is in the   *)
(* Q1 bucket and in no other.                                              *)
(***************************************************************************)
BucketResolvedInOrder ==
    OrganizeReturned \/ OrganizeRaised =>
        /\ OrganizeReturned
        /\ \A i \in 1..Len(projects) :
              BucketsHolding(projects[i]) = {ResolvedBucket(projects[i], year)}

\* the names that have a record in one of the two bucket dicts
NamesWithRecords ==
    {name \in Keys(pr_projects) \cup Keys(event_projects) :
        Items(pr_projects, name) # <<>> \/ Items(event_projects, name) # <<>>}

Qualifying(words) ==
    SelectSeq(words, LAMBDA w : Len(w) > 3
                                /\ str_lower(w) \notin {"the", "and", "for", "with", "from"})

\* the first of the phrases that may be a name, None if there is none
FirstQualifying(words) ==
    IF Qualifying(words) = <<>> THEN None ELSE Qualifying(words)[1]

(***************************************************************************)
(* C22: when no pattern gives a name, _detect_project_name returns the     *)
(* first of the first three capitalized phrases of the text that is longer *)
(* than 3 characters and is not one of the, and, for, with, from in lower  *)
(* case, and None when none of the three is, whatever the phrases after    *)
(* them; a name it returns has at least 3 characters.                      *)
(***************************************************************************)
FirstOfThreePhrases ==
    Called("_detect_project_name") =>
        /\ Truthy(unit_in.text) /\ NamingPatterns(unit_in.text) = {} =>
              unit_out = FirstQualifying(Take(FindAllFrom(unit_in.text, 1), 3))
        /\ unit_out # None => Len(unit_out) >= 3

\* no name was returned although the fourth capitalized phrase of the text
\* may be a name
FourthPhraseIgnored ==
    /\ Called("_detect_project_name")
    /\ Truthy(unit_in.text)
    /\ NamingPatterns(unit_in.text) = {}
    /\ Len(FindAllFrom(unit_in.text, 1)) >= 4
    /\ Qualifying(FindAllFrom(unit_in.text, 1)) # <<>>
    /\ unit_out = None

\* the titles among the first n records that are longer than least
LongTitles(records, n, least) ==
    SelectSeq([i \in 1..Len(Take(records, n)) |-> records[i].title],
              LAMBDA t : t # None /\ Len(t) > least)

\* description is made from the title base
MadeFrom(description, base) == Prefix(description, 97) = Prefix(base, 97)

\* description is made from the first of from_prs, else from the first of
\* from_events, else it is a sentence that begins with project_name
BaseIs(description, from_prs, from_events, project_name) ==
    IF from_prs # <<>> THEN MadeFrom(description, from_prs[1])
    ELSE IF from_events # <<>> THEN MadeFrom(description, from_events[1])
    ELSE /\ Prefix(description, Len(project_name) + 1) = project_name \o " "
         /\ Len(description) > Len(project_name) + 1

(***************************************************************************)
(* C23: the description of a project is made from the first title longer   *)
(* than 20 characters among the titles of its first 5 PRs; if there is     *)
(* none, from the first title longer than 15 characters among the titles   *)
(* of its first 3 events; a PR after the fifth and an event after the      *)
(* third are never used; if no title qualifies the description is a        *)
(* sentence that begins with the name of the project.                      *)
(***************************************************************************)
DescriptionFromFirstTitles ==
    Called("_generate_description") /\ unit_out.exc = "" =>
        BaseIs(unit_out.value, LongTitles(unit_in.prs, 5, 20),
               LongTitles(unit_in.events, 3, 15), unit_in.project_name)

\* the sixth PR and the fourth event have the only long titles and the
\* description is the sentence about the project
SixthPrNotUsed ==
    /\ Called("_generate_description")
    /\ Len(unit_in.prs) = 6
    /\ Len(unit_in.prs[6].title) > 20
    /\ Len(unit_in.events) = 4
    /\ Len(unit_in.events[4].title) > 15
    /\ unit_out.exc = ""
    /\ unit_out.value = "Helm project work throughout the year."

\* the field of a record, the empty string if the record has it not
FieldOrEmpty(record, field) == Get(record, field, "")

\* the records that have something in field
Having(records, field) ==
    SelectSeq(records, LAMBDA r : FieldOrEmpty(r, field) \notin {"", None})

\* links has one link for each of records, in their order, with the title,
\* the url and the first ten characters of the timestamp stamp of the record
LinksFor(links, records, stamp, urls) ==
    /\ Len(links) = Len(records)
    /\ \A k \in 1..Len(links) :
          /\ links[k].text = records[k].title
          /\ links[k].url \in urls
          /\ Len(links[k].date) <= 10
          /\ links[k].date = SubSeq(FieldOrEmpty(records[k], stamp), 1, Len(links[k].date))
          /\ Len(links[k].date) < 10 => links[k].date = FieldOrEmpty(records[k], stamp)

(***************************************************************************)
(* C24: github_links of a project has one link for each of its PRs that    *)
(* has a url, in the order of the PRs, and none for a PR without; its      *)
(* calendar_links has one link, with the url "#", for each of its events   *)
(* that has a title, in the order of the events; the date of a link is the *)
(* first 10 characters of the record's timestamp.                          *)
(***************************************************************************)
LinksOnlyForLinked ==
    MergeReturned =>
        \A i \in 1..Len(projects) :
            /\ LinksFor(projects[i].github_links, Having(projects[i].prs, "url"),
                        "created_at",
                        {FieldOrEmpty(pr, "url") : pr \in Range(projects[i].prs)})
            /\ \A k \in 1..Len(projects[i].github_links) :
                  projects[i].github_links[k].url
                      = Having(projects[i].prs, "url")[k].url
            /\ LinksFor(projects[i].calendar_links, Having(projects[i].events, "title"),
                        "date", {"#"})

\* a project of two events, the first without a title: its only calendar
\* link is that of the second
UntitledEventNotLinked ==
    /\ MergeReturned
    /\ \E i \in 1..Len(projects) :
          /\ Len(projects[i].events) = 2
          /\ projects[i].events[1].title = ""
          /\ projects[i].calendar_links
                 = <<[text |-> "Helm sync", url |-> "#", date |-> "2025-01-10"]>>

\* the addresses an object holds
Held(object) ==
    CASE object.kind = "list" -> Range(object.items)
      [] object.kind = "dict" -> {object.entries[i].at : i \in 1..Len(object.entries)}
      [] object.kind = "project" -> {object.prs, object.events}
      [] OTHER -> {}

RECURSIVE ReachableFrom(_, _)
\* the objects reached from those at the addresses S, these included
ReachableFrom(h, S) ==
    IF UNION {Held(h[a]) : a \in S} \subseteq S THEN S
    ELSE ReachableFrom(h, S \cup UNION {Held(h[a]) : a \in S})

\* the addresses the names of the pipeline are bound to
Bound == {ref[n] : n \in DOMAIN ref} \ {0}

(***************************************************************************)
(* C25: no step of the pipeline changes an object it is handed or one an   *)
(* earlier step returned: across a call of analyze_prs,                    *)
(* analyze_calendar_events, merge_projects or organize_by_quarter the      *)
(* keyword configuration and every object reached from prs, events,        *)
(* pr_projects, event_projects and projects, as far as they are bound      *)
(* before the call, are what they were: the record lists and the records,  *)
(* the key sets of the buckets and their lists, the project mapping and    *)
(* the fields and lists of every project.                                  *)
(***************************************************************************)
NoStepMutatesItsInputs ==
    [][/\ project_keywords' = project_keywords
       /\ \A a \in ReachableFrom(heap, Bound) : heap'[a] = heap[a]]_vars

\* organize_by_quarter has returned; a project holds the very list of PRs
\* that the bucket of analyze_prs holds, and a bucket of two projects was
\* sorted into another order than that of the project mapping
SortedWhatItWasHanded ==
    /\ pc = "done" /\ ref.quarters # 0
    /\ \E p \in Held(heap[ref.projects]) :
          heap[p].prs \in Held(heap[ref.pr_projects])
    /\ \E l \in Held(heap[ref.quarters]) :
          /\ Len(heap[l].items) = 2
          /\ heap[l].items # SelectSeq(ValuesAt(heap, ref.projects),
                                       LAMBDA p : p \in Range(heap[l].items))

\* the answer of an exchange passed the status check
Passed(e) == e.response.status_code < 400

\* the exchanges whose answers were received as pages
Received == SelectSeq(exchanges, Passed)

RECURSIVE ItemsOfAll(_)
\* the items of the pages of es, one page after the other
ItemsOfAll(es) ==
    IF es = <<>> THEN <<>>
    ELSE ItemsOfAll(SubSeq(es, 1, Len(es) - 1)) \o ItemsIn(es[Len(es)].response.body)

\* the page the k-th call of get asked for
PageAsked(k) == exchanges[k].params.page

\* the result so far is the pages received, each once and in their order;
\* every page received before the last is full, and the call has returned
\* if and only if the last exchange is a page received that is not full
PagesConcatenated ==
    /\ all_items = ItemsOfAll(Received)
    /\ \A k \in 1..Len(exchanges) - 1 :
          Passed(exchanges[k]) => Len(ItemsIn(exchanges[k].response.body)) >= per_page
    /\ req_pc = "returned" <=>
          /\ exchanges # <<>>
          /\ Passed(exchanges[Len(exchanges)])
          /\ Len(ItemsIn(exchanges[Len(exchanges)].response.body)) < per_page

\* C26 as the spec has it: the k-th request asks for page k
EachPageRequestedOnce ==
    /\ \A k \in 1..Len(exchanges) : PageAsked(k) = k
    /\ PagesConcatenated

(***************************************************************************)
(* C26: the first request of _make_request asks for page 1; the request    *)
(* after a page that was received asks for the next page, and the request  *)
(* after a rate-limited answer that was waited for asks for the same page  *)
(* again, so the pages asked for never decrease and the pages received are *)
(* 1, 2, 3, ... with none skipped.  The result is the items of the pages   *)
(* received, each page once and in order; every page received before the   *)
(* last has 100 items or more, and the call returns exactly when a page    *)
(* received has no items or fewer than 100.                                *)
(***************************************************************************)
PagesReceivedInOrder ==
    /\ exchanges # <<>> => PageAsked(1) = 1
    /\ \A k \in 1..Len(exchanges) - 1 :
          PageAsked(k + 1) = PageAsked(k) + (IF Passed(exchanges[k]) THEN 1 ELSE 0)
    /\ \A k \in 1..Len(Received) : Received[k].params.page = k
    /\ PagesConcatenated

\* the call has returned three pages, 299 items, after being made to wait
\* once: four requests, one page asked for twice
ThreePagesAndAWait ==
    /\ req_pc = "returned"
    /\ Len(exchanges) = 4
    /\ Len(Received) = 3
    /\ Len(all_items) = 3 * per_page - 1
    /\ \E k \in 1..3 : PageAsked(k + 1) = PageAsked(k)

\* the answer of an exchange is a 403 that names its reset time
RateLimit(e) == e.response.status_code = 403 /\ "reset" \in DOMAIN e.response.headers

\* the reset time such an answer names
ResetOf(e) == ParseInt(e.response.headers.reset)

\* the reset time is later than the second the answer came at
ResetAhead(e) == RateLimit(e) /\ ResetOf(e) > e.at

\* the reset time is that second or an earlier one
ResetPast(e) == RateLimit(e) /\ ResetOf(e) <= e.at

(***************************************************************************)
(* C27: after a 403 answer whose reset time is in the future the call goes *)
(* on: the next request is made no earlier than the reset time and asks    *)
(* for the same page.  A 403 answer whose reset time is not in the future  *)
(* is the last exchange of the call, which raises.  Every item of the      *)
(* result comes from an answer that passed the status check, so a 403      *)
(* answer adds none.                                                       *)
(***************************************************************************)
RateLimitRetriesSamePage ==
    /\ \A k \in 1..Len(exchanges) :
          /\ (ResetAhead(exchanges[k]) /\ k = Len(exchanges)) =>
                 /\ req_pc = "get"
                 /\ page = PageAsked(k)
                 /\ now >= ResetOf(exchanges[k])
          /\ (ResetAhead(exchanges[k]) /\ k < Len(exchanges)) =>
                 /\ PageAsked(k + 1) = PageAsked(k)
                 /\ exchanges[k + 1].at >= ResetOf(exchanges[k])
          /\ ResetPast(exchanges[k]) => (k = Len(exchanges) /\ req_pc = "raised")
    /\ \A i \in 1..Len(all_items) : Passed(exchanges[all_items[i].request])
    /\ \A k \in 1..Len(exchanges) :
          ~Passed(exchanges[k]) =>
              \A i \in 1..Len(all_items) : all_items[i].request # k

\* page 2 was asked for, the answer was a 403 with a list in its body and a
\* reset time one second ahead, and page 2 was asked for again after it; the
\* answer to that was a 403 whose reset time had come, and the call raised
WaitedThenRefused ==
    /\ req_pc = "raised"
    /\ Len(exchanges) = 3
    /\ Len(all_items) = per_page
    /\ ResetAhead(exchanges[2]) /\ exchanges[2].response.body.items # <<>>
    /\ PageAsked(2) = 2 /\ PageAsked(3) = 2
    /\ ResetPast(exchanges[3])

\* the two cache files of a member
CacheFiles(member) == {data_file(member), projects_file(member)}

\* the turns of the run that is under way
TurnsOfRun == SelectSeq(turns, LAMBDA t : t.run = run)

(***************************************************************************)
(* C28: in every turn of the loop of main the collectors and the analysis  *)
(* run if and only if one of the member's two cache files is missing, and  *)
(* then both files are written; when both exist they are read and neither  *)
(* is written.  After a run that completed both files exist for every      *)
(* member, and the run after it collects nothing and ends with the same    *)
(* data and projects for every member.                                     *)
(***************************************************************************)
CacheFilesDecide ==
    /\ \A i \in 1..Len(turns) :
          /\ (turns[i].collected /\ turns[i].analysed) <=> turns[i].missing
          /\ turns[i].missing => turns[i].wrote = CacheFiles(turns[i].member)
          /\ ~turns[i].missing => (turns[i].read /\ turns[i].wrote = {})
    /\ pc = "done" => \A i \in 1..Len(members) : BothExist(members[i])
    /\ last_run.completed =>
          /\ \A i \in 1..Len(TurnsOfRun) : ~TurnsOfRun[i].collected
          /\ pc = "done" => all_members_data = last_run.data

=============================================================================
